---- MODULE Spec2Model ----
(***************************************************************************)
(* Model of the banyan_bits gateways.                                      *)
(*                                                                         *)
(*  - TmxArduinoGateway (Gateways/tmx_arduino_gateway.py): command         *)
(*    handlers that call the telemetrix device, and the device callbacks   *)
(*    that publish reports on the bus.                                     *)
(*  - NrWsGateway (Gateways/node_red_websocket_gateway.py): the WebSocket  *)
(*    connection handler, its receive loop and the bus-to-socket path.     *)
(*  - The two processes, tmx_arduino_gateway() and nr_ws_gateway(), from   *)
(*    their start to their exit: startup, signals, exit codes.             *)
(*  - PinInit (Utilities/pin_initialization/pin_initialization.py) and the *)
(*    path of its commands to the Arduino gateway.                         *)
(*  - EchoClient and EchoServer (echo_client_server/asyncio).              *)
(*                                                                         *)
(* Python lists are TLA+ sequences: the Python index i is the TLA+ index   *)
(* i + 1.  Python dictionaries with string keys are TLA+ records.          *)
(***************************************************************************)
EXTENDS Integers, Sequences, FiniteSets, TLC

\* Number of operations (dispatched commands and device callbacks) one
\* behaviour of the Arduino gateway processes.
MaxOps == 3

\* Number of messages (frames received and bus messages) one behaviour of
\* the WebSocket gateway processes.
MaxWsMsgs == 2

VARIABLES
    pins_dictionary,  \* GatewayBaseAIO.pins_dictionary, as init_pins_dictionary leaves it
    arduino_calls,    \* the calls made on self.arduino, in order
    published,        \* the publish_payload calls of the Arduino gateway, in order
    invoked,          \* names of the handlers run by the latest dispatch
    gw_error,         \* exception that left the latest handler or callback ("None" if none)
    main_running,     \* TmxArduinoGateway.main is still in its receive loop
    ops,              \* the operations processed so far, in order
    wsocket,          \* NrWsGateway.wsocket: the connection it refers to, or "None"
    publisher_topic,  \* NrWsGateway.publisher_topic
    bus_started,      \* begin() has completed: bus messages are delivered
    ws_pc,            \* per connection: where its wsg handler is
    ws_published,     \* the publish_payload calls of the WebSocket gateway, in order
    ws_sent,          \* the frames sent to clients, in order, with the socket used
    ws_error,         \* exception that left the latest WebSocket gateway step
    ws_ops,           \* frames received and bus messages processed so far, in order
    program,          \* the entry point the process runs ("None": no process is followed)
    pc,               \* where the process is
    exit_code,        \* the exit code of the process, once pc is "exited"
    handling,         \* the message whose handler or publish is in flight
    events,           \* what the process has done so far, in order
    pin_commands,     \* PinInit: its four command dictionaries, as last mutated
    pin_published,    \* PinInit: its publish_payload calls, in order
    pin_received,     \* PinInit: the messages it has handled, in order
    gw_taken,         \* how many of PinInit's messages the Arduino gateway has received
    message_number,   \* EchoClient.message_number
    to_server,        \* messages published on 'asyncio_echo_client_server', in order
    replies,          \* EchoServer: its publish_payload calls, in order
    srv_taken,        \* how many messages the echo server has received
    srv_pc,           \* the echo server: "receive", "print" or "stopped"
    cli_taken,        \* how many replies the echo client has received
    cli_pc,           \* the echo client: "start", "receive" or "stopped"
    reported,         \* the completion messages the echo client has printed
    echo_error        \* exception that left the latest echo server handler

tmx_vars == <<pins_dictionary, arduino_calls, published, invoked, gw_error,
              main_running, ops>>

ws_vars == <<wsocket, publisher_topic, bus_started, ws_pc, ws_published, ws_sent,
             ws_error, ws_ops>>

proc_vars == <<program, pc, exit_code, handling, events>>

pin_vars == <<pin_commands, pin_published, pin_received, gw_taken>>

echo_vars == <<message_number, to_server, replies, srv_taken, srv_pc, cli_taken,
               cli_pc, reported, echo_error>>

util_vars == <<pin_vars, echo_vars>>

vars == <<pins_dictionary, arduino_calls, published, invoked, gw_error,
          main_running, ops, wsocket, publisher_topic, bus_started, ws_pc,
          ws_published, ws_sent, ws_error, ws_ops,
          program, pc, exit_code, handling, events,
          pin_commands, pin_published, pin_received, gw_taken,
          message_number, to_server, replies, srv_taken, srv_pc, cli_taken,
          cli_pc, reported, echo_error>>

NoCallback == "None"

(***************************************************************************)
(* Python helpers                                                          *)
(***************************************************************************)

\* key in payload, for every key of keys
Has(payload, keys) == \A k \in keys : k \in DOMAIN payload

\* len(data) > i, the condition under which data[i] does not raise IndexError
InRange(data, i) == i + 1 <= Len(data)

\* data[i] with a Python (zero-based) index
PyIndex(data, i) == data[i + 1]

\* One call on the telemetrix instance: positional scalar arguments, the list
\* argument (if the primitive takes one) and the callback reference.
Call(op, args, list, callback) ==
    [op |-> op, args |-> args, list |-> list, callback |-> callback]

\* Outcome of a handler: the exception that leaves it, the device calls it
\* made, the handlers that ran, the entries it wrote to pins_dictionary.
Done(name, calls) ==
    [error |-> "None", calls |-> calls, invoked |-> <<name>>, pin_entries |-> <<>>]

Raise(name, exc) ==
    [error |-> exc, calls |-> <<>>, invoked |-> <<name>>, pin_entries |-> <<>>]

(***************************************************************************)
(* TmxArduinoGateway: value-setting and reporting-control handlers         *)
(***************************************************************************)

\* Mutant of digital_write: it sets the pin to digital output before writing.
digital_write_configures_pin(payload) ==
    IF ~Has(payload, {"pin", "value"}) THEN Raise("digital_write", "KeyError")
    ELSE Done("digital_write",
              <<Call("set_pin_mode_digital_output", <<payload.pin>>, <<>>, NoCallback),
                Call("digital_write", <<payload.pin, payload.value>>, <<>>, NoCallback)>>)

digital_write(payload) ==
    IF ~Has(payload, {"pin", "value"}) THEN Raise("digital_write", "KeyError")
    ELSE Done("digital_write",
              <<Call("digital_write", <<payload.pin, payload.value>>, <<>>, NoCallback)>>)

disable_analog_reporting(payload) ==
    IF ~Has(payload, {"pin"}) THEN Raise("disable_analog_reporting", "KeyError")
    ELSE Done("disable_analog_reporting",
              <<Call("disable_analog_reporting", <<payload.pin>>, <<>>, NoCallback)>>)

disable_digital_reporting(payload) ==
    IF ~Has(payload, {"pin"}) THEN Raise("disable_digital_reporting", "KeyError")
    ELSE Done("disable_digital_reporting",
              <<Call("disable_digital_reporting", <<payload.pin>>, <<>>, NoCallback)>>)

enable_analog_reporting(payload) ==
    IF ~Has(payload, {"pin"}) THEN Raise("enable_analog_reporting", "KeyError")
    ELSE Done("enable_analog_reporting",
              <<Call("enable_analog_reporting", <<payload.pin>>, <<>>, NoCallback)>>)

enable_digital_reporting(payload) ==
    IF ~Has(payload, {"pin"}) THEN Raise("enable_digital_reporting", "KeyError")
    ELSE Done("enable_digital_reporting",
              <<Call("enable_digital_reporting", <<payload.pin>>, <<>>, NoCallback)>>)

i2c_read(payload) ==
    IF ~Has(payload, {"addr", "register", "number_of_bytes"})
    THEN Raise("i2c_read", "KeyError")
    ELSE Done("i2c_read",
              <<Call("i2c_read",
                     <<payload.addr, payload.register, payload.number_of_bytes>>,
                     <<>>, "i2c_callback")>>)

i2c_write(payload) ==
    IF ~Has(payload, {"addr", "data"}) THEN Raise("i2c_write", "KeyError")
    ELSE Done("i2c_write",
              <<Call("i2c_write", <<payload.addr>>, payload.data, NoCallback)>>)

\* Mutant of play_tone: the duration is not passed to the device.
play_tone_without_duration(payload) ==
    IF ~Has(payload, {"pin", "freq", "duration"}) THEN Raise("play_tone", "KeyError")
    ELSE Done("play_tone",
              <<Call("play_tone", <<payload.pin, payload.freq>>, <<>>, NoCallback)>>)

play_tone(payload) ==
    IF ~Has(payload, {"pin", "freq", "duration"}) THEN Raise("play_tone", "KeyError")
    ELSE Done("play_tone",
              <<Call("play_tone", <<payload.pin, payload.freq, payload.duration>>,
                     <<>>, NoCallback)>>)

\* Mutant of pwm_write: it delegates to the digital_write handler.
pwm_write_via_digital_write(payload) ==
    LET r == digital_write(payload) IN
    [r EXCEPT !.invoked = <<"pwm_write">> \o r.invoked]

\* pwm_write calls the device's analog_write
pwm_write(payload) ==
    IF ~Has(payload, {"pin", "value"}) THEN Raise("pwm_write", "KeyError")
    ELSE Done("pwm_write",
              <<Call("analog_write", <<payload.pin, payload.value>>, <<>>, NoCallback)>>)

servo_position(payload) ==
    IF ~Has(payload, {"pin", "position"}) THEN Raise("servo_position", "KeyError")
    ELSE Done("servo_position",
              <<Call("servo_write", <<payload.pin, payload.position>>, <<>>, NoCallback)>>)

stepper_write(payload) ==
    IF ~Has(payload, {"motor_speed", "number_of_steps"})
    THEN Raise("stepper_write", "KeyError")
    ELSE Done("stepper_write",
              <<Call("stepper_write", <<payload.motor_speed, payload.number_of_steps>>,
                     <<>>, NoCallback)>>)

(***************************************************************************)
(* TmxArduinoGateway: mode-setting handlers                                *)
(***************************************************************************)

set_mode_analog_input(payload) ==
    IF ~Has(payload, {"pin"}) THEN Raise("set_mode_analog_input", "KeyError")
    ELSE Done("set_mode_analog_input",
              <<Call("set_pin_mode_analog_input", <<payload.pin>>, <<>>,
                     "analog_input_callback")>>)

\* Mutant of set_mode_digital_input: it appends an entry for the pin to the
\* pins dictionary at every call.
set_mode_digital_input_appends_entry(payload) ==
    IF ~Has(payload, {"pin"}) THEN Raise("set_mode_digital_input", "KeyError")
    ELSE [Done("set_mode_digital_input",
               <<Call("set_pin_mode_digital_input", <<payload.pin>>, <<>>,
                      "digital_input_callback")>>)
          EXCEPT !.pin_entries = <<[pin |-> payload.pin, mode |-> "DigitalInput",
                                    tag |-> "blue"]>>]

set_mode_digital_input(payload) ==
    IF ~Has(payload, {"pin"}) THEN Raise("set_mode_digital_input", "KeyError")
    ELSE Done("set_mode_digital_input",
              <<Call("set_pin_mode_digital_input", <<payload.pin>>, <<>>,
                     "digital_input_callback")>>)

\* Mutant of set_mode_digital_input_pullup: it configures a plain digital
\* input, and passes the analog callback.
set_mode_digital_input_pullup_as_plain(payload) ==
    IF ~Has(payload, {"pin"}) THEN Raise("set_mode_digital_input_pullup", "KeyError")
    ELSE Done("set_mode_digital_input_pullup",
              <<Call("set_pin_mode_digital_input", <<payload.pin>>, <<>>,
                     "analog_input_callback")>>)

set_mode_digital_input_pullup(payload) ==
    IF ~Has(payload, {"pin"}) THEN Raise("set_mode_digital_input_pullup", "KeyError")
    ELSE Done("set_mode_digital_input_pullup",
              <<Call("set_pin_mode_digital_input_pullup", <<payload.pin>>, <<>>,
                     "digital_input_callback")>>)

set_mode_digital_output(payload) ==
    IF ~Has(payload, {"pin"}) THEN Raise("set_mode_digital_output", "KeyError")
    ELSE Done("set_mode_digital_output",
              <<Call("set_pin_mode_digital_output", <<payload.pin>>, <<>>, NoCallback)>>)

set_mode_i2c(payload) ==
    Done("set_mode_i2c", <<Call("set_pin_mode_i2c", <<>>, <<>>, NoCallback)>>)

\* The handler calls self.set_pin_mode_analog_input, not a method of
\* self.arduino: the gateway class has no attribute of that name, so the
\* attribute lookup raises AttributeError before any device call is made.
set_mode_pwm(payload) ==
    IF ~Has(payload, {"pin"}) THEN Raise("set_mode_pwm", "KeyError")
    ELSE Raise("set_mode_pwm", "AttributeError")

set_mode_servo(payload) ==
    IF ~Has(payload, {"pin"}) THEN Raise("set_mode_servo", "KeyError")
    ELSE Done("set_mode_servo",
              <<Call("set_pin_mode_servo", <<payload.pin>>, <<>>, NoCallback)>>)

set_mode_sonar(payload) ==
    IF ~Has(payload, {"trigger_pin", "echo_pin"}) THEN Raise("set_mode_sonar", "KeyError")
    ELSE Done("set_mode_sonar",
              <<Call("set_pin_mode_sonar", <<payload.trigger_pin, payload.echo_pin>>,
                     <<>>, "sonar_callback")>>)

set_mode_stepper(payload) ==
    IF ~Has(payload, {"steps_per_revolution", "pins"})
    THEN Raise("set_mode_stepper", "KeyError")
    ELSE Done("set_mode_stepper",
              <<Call("set_pin_mode_stepper", <<payload.steps_per_revolution>>,
                     payload.pins, NoCallback)>>)

set_mode_tone(payload) ==
    IF ~Has(payload, {"pin"}) THEN Raise("set_mode_tone", "KeyError")
    ELSE Done("set_mode_tone",
              <<Call("set_pin_mode_tone", <<payload.pin>>, <<>>, NoCallback)>>)

(***************************************************************************)
(* Text: a Python str is a sequence of one-character strings               *)
(***************************************************************************)

Digits == <<"0", "1", "2", "3", "4", "5", "6", "7", "8", "9">>

RECURSIVE StrNat(_)
StrNat(n) ==
    IF n < 10 THEN <<Digits[n + 1]>>
    ELSE StrNat(n \div 10) \o <<Digits[(n % 10) + 1]>>

\* str(elem) for an integer elem
Str(n) == IF n < 0 THEN <<"-">> \o StrNat(0 - n) ELSE StrNat(n)

\* sep.join(texts)
RECURSIVE Join(_, _)
Join(sep, texts) ==
    IF Len(texts) = 0 THEN <<>>
    ELSE IF Len(texts) = 1 THEN texts[1]
    ELSE texts[1] \o sep \o Join(sep, Tail(texts))

(***************************************************************************)
(* TmxArduinoGateway: device callbacks                                     *)
(***************************************************************************)

ReportTopic == "from_arduino_gateway"

Publish(payload, topic) == [topic |-> topic, payload |-> payload]

\* Outcome of a callback: the exception that leaves it and what it published.
Reported(payload) == [error |-> "None", published |-> <<Publish(payload, ReportTopic)>>]

CallbackRaise(exc) == [error |-> exc, published |-> <<>>]

\* Mutant of digital_input_callback: the indices are one too low.
digital_input_callback_shifted(data) ==
    IF ~(InRange(data, 0) /\ InRange(data, 1) /\ InRange(data, 2))
    THEN CallbackRaise("IndexError")
    ELSE Reported([report |-> "digital_input", pin |-> PyIndex(data, 0),
                   value |-> PyIndex(data, 1), timestamp |-> PyIndex(data, 2)])

\* data = [pin mode, pin, current reported value, timestamp]
digital_input_callback(data) ==
    IF ~(InRange(data, 1) /\ InRange(data, 2) /\ InRange(data, 3))
    THEN CallbackRaise("IndexError")
    ELSE Reported([report |-> "digital_input", pin |-> PyIndex(data, 1),
                   value |-> PyIndex(data, 2), timestamp |-> PyIndex(data, 3)])

analog_input_callback(data) ==
    IF ~(InRange(data, 1) /\ InRange(data, 2) /\ InRange(data, 3))
    THEN CallbackRaise("IndexError")
    ELSE Reported([report |-> "analog_input", pin |-> PyIndex(data, 1),
                   value |-> PyIndex(data, 2), timestamp |-> PyIndex(data, 3)])

\* Mutant of i2c_callback: it reads the first element before joining.
i2c_callback_reads_first(data) ==
    IF ~InRange(data, 0) THEN CallbackRaise("IndexError")
    ELSE Reported([report |-> "i2c_data",
                   value |-> Join(<<",", " ">>, [i \in 1..Len(data) |-> Str(data[i])])])

i2c_callback(data) ==
    Reported([report |-> "i2c_data",
              value |-> Join(<<",", " ">>, [i \in 1..Len(data) |-> Str(data[i])])])

\* Mutant of sonar_callback: the report is published twice.
sonar_callback_publishes_twice(data) ==
    IF ~InRange(data, 2) THEN CallbackRaise("IndexError")
    ELSE [error |-> "None",
          published |-> <<Publish([report |-> "sonar_data", value |-> PyIndex(data, 2)],
                                  ReportTopic),
                          Publish([report |-> "sonar_data", value |-> PyIndex(data, 2)],
                                  ReportTopic)>>]

sonar_callback(data) ==
    IF ~InRange(data, 2) THEN CallbackRaise("IndexError")
    ELSE Reported([report |-> "sonar_data", value |-> PyIndex(data, 2)])

(***************************************************************************)
(* Dispatch of a command envelope to the handler of its name               *)
(***************************************************************************)

ModeCommands ==
    {"set_mode_analog_input", "set_mode_digital_input", "set_mode_digital_input_pullup",
     "set_mode_digital_output", "set_mode_i2c", "set_mode_pwm", "set_mode_servo",
     "set_mode_sonar", "set_mode_stepper", "set_mode_tone"}

Commands ==
    ModeCommands \cup
    {"digital_write", "disable_analog_reporting", "disable_digital_reporting",
     "enable_analog_reporting", "enable_digital_reporting", "i2c_read", "i2c_write",
     "play_tone", "pwm_write", "servo_position", "stepper_write"}

\* The command dictionary of the gateway base class: the method of the same
\* name, as overridden by TmxArduinoGateway.
command_dictionary(command, payload) ==
    CASE command = "digital_write" -> digital_write(payload)
      [] command = "disable_analog_reporting" -> disable_analog_reporting(payload)
      [] command = "disable_digital_reporting" -> disable_digital_reporting(payload)
      [] command = "enable_analog_reporting" -> enable_analog_reporting(payload)
      [] command = "enable_digital_reporting" -> enable_digital_reporting(payload)
      [] command = "i2c_read" -> i2c_read(payload)
      [] command = "i2c_write" -> i2c_write(payload)
      [] command = "play_tone" -> play_tone(payload)
      [] command = "pwm_write" -> pwm_write(payload)
      [] command = "servo_position" -> servo_position(payload)
      [] command = "set_mode_analog_input" -> set_mode_analog_input(payload)
      [] command = "set_mode_digital_input" -> set_mode_digital_input(payload)
      [] command = "set_mode_digital_input_pullup" -> set_mode_digital_input_pullup(payload)
      [] command = "set_mode_digital_output" -> set_mode_digital_output(payload)
      [] command = "set_mode_i2c" -> set_mode_i2c(payload)
      [] command = "set_mode_pwm" -> set_mode_pwm(payload)
      [] command = "set_mode_servo" -> set_mode_servo(payload)
      [] command = "set_mode_sonar" -> set_mode_sonar(payload)
      [] command = "set_mode_stepper" -> set_mode_stepper(payload)
      [] command = "set_mode_tone" -> set_mode_tone(payload)
      [] command = "stepper_write" -> stepper_write(payload)

Callbacks ==
    {"digital_input_callback", "analog_input_callback", "i2c_callback", "sonar_callback"}

RunCallback(cb, data) ==
    CASE cb = "digital_input_callback" -> digital_input_callback(data)
      [] cb = "analog_input_callback" -> analog_input_callback(data)
      [] cb = "i2c_callback" -> i2c_callback(data)
      [] cb = "sonar_callback" -> sonar_callback(data)

(***************************************************************************)
(* Inputs                                                                  *)
(***************************************************************************)

Pins == {7, 9}

PinModeCommands ==
    {"set_mode_analog_input", "set_mode_digital_input", "set_mode_digital_input_pullup",
     "set_mode_digital_output", "set_mode_pwm", "set_mode_servo", "set_mode_tone"}

ReportingCommands ==
    {"disable_analog_reporting", "disable_digital_reporting",
     "enable_analog_reporting", "enable_digital_reporting"}

Envelopes ==
    {[command |-> c, pin |-> p, tag |-> "blue"] : c \in PinModeCommands, p \in Pins}
    \cup {[command |-> c, pin |-> 9] : c \in ReportingCommands}
    \cup {[command |-> c, pin |-> 9, value |-> 1] : c \in {"digital_write", "pwm_write"}}
    \cup {[command |-> "servo_position", pin |-> 9, position |-> 90],
          [command |-> "play_tone", pin |-> 9, freq |-> 440, duration |-> 500]}
    \cup {[command |-> "set_mode_i2c"],
          [command |-> "set_mode_sonar", trigger_pin |-> 7, echo_pin |-> 9],
          [command |-> "set_mode_stepper", steps_per_revolution |-> 200, pins |-> <<7, 9>>],
          [command |-> "stepper_write", motor_speed |-> 20, number_of_steps |-> 5],
          [command |-> "i2c_read", addr |-> 83, register |-> 50, number_of_bytes |-> 2],
          [command |-> "i2c_write", addr |-> 83, data |-> <<45, 0>>]}
    \* envelopes that lack a key their handler reads
    \cup {[command |-> "digital_write", pin |-> 9],
          [command |-> "set_mode_servo", tag |-> "servo"],
          [command |-> "set_mode_sonar", trigger_pin |-> 7]}

\* Raw data a device callback is called with; the device sends
\* [pin mode, pin, value, timestamp], the shorter ones are malformed reports.
DataSamples ==
    {<<>>, <<2, 7>>, <<2, 7, 1>>, <<2, 7, 1, 1690000000>>, <<0, 9, 0, 1690000001>>}

(***************************************************************************)
(* The Arduino gateway as a state machine                                  *)
(***************************************************************************)

NoPayload == [command |-> "None"]

InitTmx ==
    /\ pins_dictionary = <<>>
    /\ arduino_calls = <<>>
    /\ published = <<>>
    /\ invoked = <<>>
    /\ gw_error = "None"
    /\ main_running = TRUE
    /\ ops = <<>>

\* One message of the receive loop of main(): the envelope is handed to the
\* handler its command names.  An exception that leaves the handler is caught
\* nowhere in main() and ends it.
Dispatch(payload) ==
    /\ main_running
    /\ Len(ops) < MaxOps
    /\ payload.command \in Commands
    /\ LET r == command_dictionary(payload.command, payload) IN
        /\ arduino_calls' = arduino_calls \o r.calls
        /\ pins_dictionary' = pins_dictionary \o r.pin_entries
        /\ invoked' = r.invoked
        /\ gw_error' = r.error
        /\ main_running' = (r.error = "None")
    /\ ops' = Append(ops, [kind |-> "dispatch", name |-> payload.command,
                           payload |-> payload, data |-> <<>>])
    /\ UNCHANGED published
    /\ UNCHANGED ws_vars
    /\ UNCHANGED proc_vars
    /\ UNCHANGED util_vars

\* The callbacks registered with the device so far
Registered == {arduino_calls[i].callback : i \in 1..Len(arduino_calls)} \ {NoCallback}

\* The device delivers a report to a callback it was given.
DeviceEvent(cb, data) ==
    /\ main_running
    /\ Len(ops) < MaxOps
    /\ cb \in Registered
    /\ LET r == RunCallback(cb, data) IN
        /\ published' = published \o r.published
        /\ gw_error' = r.error
    /\ invoked' = <<>>
    /\ ops' = Append(ops, [kind |-> "callback", name |-> cb,
                           payload |-> NoPayload, data |-> data])
    /\ UNCHANGED <<pins_dictionary, arduino_calls, main_running>>
    /\ UNCHANGED ws_vars
    /\ UNCHANGED proc_vars
    /\ UNCHANGED util_vars

NextTmx ==
    \/ \E payload \in Envelopes : Dispatch(payload)
    \/ \E cb \in Callbacks, data \in DataSamples : DeviceEvent(cb, data)

(***************************************************************************)
(* JSON text: a frame is a sequence of tokens; Python values carry a tag   *)
(***************************************************************************)

PyInt(n) == [t |-> "int", v |-> n]
PyStr(str) == [t |-> "str", v |-> str]
PyNone == [t |-> "NoneType", v |-> 0]
Item(key, val) == [k |-> key, val |-> val]
\* a dict keeps its items in insertion order
PyDict(items) == [t |-> "dict", v |-> items]

Punct(c) == [type |-> "punct", s |-> c, n |-> 0]
StrTok(str) == [type |-> "string", s |-> str, n |-> 0]
NumTok(n) == [type |-> "number", s |-> "", n |-> n]
NullTok == [type |-> "null", s |-> "", n |-> 0]

\* json.dumps(value)
RECURSIVE json_dumps(_)
RECURSIVE DumpItems(_)
DumpItems(items) ==
    IF Len(items) = 0 THEN <<>>
    ELSE <<StrTok(items[1].k), Punct(":")>> \o json_dumps(items[1].val)
         \o (IF Len(items) = 1 THEN <<>> ELSE <<Punct(",")>> \o DumpItems(Tail(items)))

json_dumps(value) ==
    CASE value.t = "int" -> <<NumTok(value.v)>>
      [] value.t = "str" -> <<StrTok(value.v)>>
      [] value.t = "NoneType" -> <<NullTok>>
      [] value.t = "dict" -> <<Punct("{")>> \o DumpItems(value.v) \o <<Punct("}")>>

Parsed(value, next) == [ok |-> TRUE, value |-> value, next |-> next]
ParseFail == [ok |-> FALSE, value |-> PyNone, next |-> 0]

\* The JSON decoder: the value that starts at token i and the index after it
RECURSIVE ParseValue(_, _)
RECURSIVE ParseMembers(_, _, _)
ParseMembers(text, i, items) ==
    IF i + 2 > Len(text) \/ text[i].type # "string" \/ text[i + 1] # Punct(":")
    THEN ParseFail
    ELSE LET r == ParseValue(text, i + 2) IN
         IF ~r.ok \/ r.next > Len(text) THEN ParseFail
         ELSE LET more == Append(items, Item(text[i].s, r.value)) IN
              IF text[r.next] = Punct("}") THEN Parsed(PyDict(more), r.next + 1)
              ELSE IF text[r.next] = Punct(",") THEN ParseMembers(text, r.next + 1, more)
              ELSE ParseFail

ParseValue(text, i) ==
    IF i > Len(text) THEN ParseFail
    ELSE CASE text[i].type = "number" -> Parsed(PyInt(text[i].n), i + 1)
           [] text[i].type = "string" -> Parsed(PyStr(text[i].s), i + 1)
           [] text[i].type = "null" -> Parsed(PyNone, i + 1)
           [] text[i] = Punct("{") ->
                IF i + 1 <= Len(text) /\ text[i + 1] = Punct("}")
                THEN Parsed(PyDict(<<>>), i + 2)
                ELSE ParseMembers(text, i + 1, <<>>)
           [] OTHER -> ParseFail

\* json.loads(text): ok is FALSE where it raises JSONDecodeError
json_loads(text) ==
    LET r == ParseValue(text, 1) IN
    IF r.ok /\ r.next = Len(text) + 1 THEN [ok |-> TRUE, value |-> r.value]
    ELSE [ok |-> FALSE, value |-> PyNone]

\* key in d, for a dict d
HasKey(d, key) == \E i \in 1..Len(d.v) : d.v[i].k = key

\* d[key] for a dict d that has the key (the last item of that key)
GetItem(d, key) ==
    LET i == CHOOSE j \in 1..Len(d.v) :
                 d.v[j].k = key /\ \A m \in (j + 1)..Len(d.v) : d.v[m].k # key
    IN d.v[i].val

(***************************************************************************)
(* NrWsGateway                                                             *)
(***************************************************************************)

\* Mutant of receive_data: it publishes the decoded frame, not its payload.
receive_data_publishes_frame(data, topic) ==
    LET decoded == json_loads(data) IN
    IF ~decoded.ok
    THEN [error |-> "JSONDecodeError", continue |-> FALSE, published |-> <<>>]
    ELSE IF decoded.value.t # "dict"
    THEN [error |-> "None", continue |-> FALSE, published |-> <<>>]
    ELSE IF ~HasKey(decoded.value, "payload")
    THEN [error |-> "KeyError", continue |-> FALSE, published |-> <<>>]
    ELSE [error |-> "None", continue |-> TRUE,
          published |-> <<Publish(decoded.value, topic)>>]

\* Mutant of receive_data: a frame whose payload cannot be extracted is
\* skipped and the loop goes on.
receive_data_skips_bad_frame(data, topic) ==
    LET decoded == json_loads(data) IN
    IF ~decoded.ok \/ decoded.value.t # "dict" \/ ~HasKey(decoded.value, "payload")
    THEN [error |-> "None", continue |-> TRUE, published |-> <<>>]
    ELSE [error |-> "None", continue |-> TRUE,
          published |-> <<Publish(GetItem(decoded.value, "payload"), topic)>>]

\* One iteration of the loop of receive_data, for the frame recv() returned:
\* the exception that leaves the loop, whether the loop goes on, and what is
\* published.  TypeError (the decoded value is no dict) is caught and ends the
\* loop; JSONDecodeError and KeyError are not caught.
receive_data(data, topic) ==
    LET decoded == json_loads(data) IN
    IF ~decoded.ok
    THEN [error |-> "JSONDecodeError", continue |-> FALSE, published |-> <<>>]
    ELSE IF decoded.value.t # "dict"
    THEN [error |-> "None", continue |-> FALSE, published |-> <<>>]
    ELSE IF ~HasKey(decoded.value, "payload")
    THEN [error |-> "KeyError", continue |-> FALSE, published |-> <<>>]
    ELSE [error |-> "None", continue |-> TRUE,
          published |-> <<Publish(GetItem(decoded.value, "payload"), topic)>>]

\* The text incoming_message_processing sends for a bus payload
incoming_message_processing(payload) ==
    json_dumps(PyDict(<<Item("payload", payload)>>))

Conns == {"ws1", "ws2"}

\* The client of connection c is connected: its handler has started and
\* has not ended (the server closes the connection when the handler ends).
Connected(c) == ws_pc[c] \in {"begin", "recv"}

CommandPayload ==
    PyDict(<<Item("command", PyStr("digital_write")), Item("pin", PyInt(9)),
             Item("value", PyInt(0))>>)

ReportPayload ==
    PyDict(<<Item("report", PyStr("digital_input")), Item("pin", PyInt(7)),
             Item("value", PyInt(1)), Item("timestamp", PyInt(1690000000))>>)

\* Payloads a client wraps in a frame
FramePayloads == {CommandPayload, PyInt(5), PyDict(<<Item("payload", PyStr("x"))>>)}

\* The text of the frame {"payload": P}
WrapText(P) ==
    <<Punct("{"), StrTok("payload"), Punct(":")>> \o json_dumps(P) \o <<Punct("}")>>

Frames ==
    {WrapText(P) : P \in FramePayloads}
    \cup {<<NumTok(5)>>,                                                  \* 5
          <<Punct("{"), StrTok("topic"), Punct(":"), StrTok("x"), Punct("}")>>,  \* {"topic": "x"}
          <<Punct("{"), StrTok("payload")>>}                              \* {"payload"

\* Payloads that arrive from the bus
BusPayloads == {ReportPayload, PyStr("hello"), PyDict(<<Item("payload", PyInt(1))>>)}

NoFrame == <<>>

InitWs ==
    /\ wsocket = "None"
    /\ publisher_topic = "None"
    /\ bus_started = FALSE
    /\ ws_pc = [c \in Conns |-> "idle"]
    /\ ws_published = <<>>
    /\ ws_sent = <<>>
    /\ ws_error = "None"
    /\ ws_ops = <<>>

\* Mutant of WsgStart: begin() runs before the socket and the topic are set.
WsgStart_begins_first(c) ==
    /\ ws_pc[c] = "idle"
    /\ bus_started' = TRUE
    /\ ws_pc' = [ws_pc EXCEPT ![c] = "begin"]
    /\ UNCHANGED <<wsocket, publisher_topic, ws_published, ws_sent, ws_error, ws_ops>>
    /\ UNCHANGED tmx_vars
    /\ UNCHANGED proc_vars
    /\ UNCHANGED util_vars

\* wsg up to its first await: a client has connected.
WsgStart(c) ==
    /\ ws_pc[c] = "idle"
    /\ wsocket' = c
    /\ publisher_topic' = "to_arduino_gateway"
    /\ ws_pc' = [ws_pc EXCEPT ![c] = "begin"]
    /\ UNCHANGED <<bus_started, ws_published, ws_sent, ws_error, ws_ops>>
    /\ UNCHANGED tmx_vars
    /\ UNCHANGED proc_vars
    /\ UNCHANGED util_vars

\* begin() completes and wsg enters receive_data.
WsgBegin(c) ==
    /\ ws_pc[c] = "begin"
    /\ bus_started' = TRUE
    /\ ws_pc' = [ws_pc EXCEPT ![c] = "recv"]
    /\ UNCHANGED <<wsocket, publisher_topic, ws_published, ws_sent, ws_error, ws_ops>>
    /\ UNCHANGED tmx_vars
    /\ UNCHANGED proc_vars
    /\ UNCHANGED util_vars

\* recv() returns a frame: one iteration of the loop of receive_data.
ReceiveFrame(c, frame) ==
    /\ ws_pc[c] = "recv"
    /\ Len(ws_ops) < MaxWsMsgs
    /\ LET r == receive_data(frame, publisher_topic) IN
        /\ ws_published' = ws_published \o r.published
        /\ ws_error' = r.error
        /\ ws_pc' = [ws_pc EXCEPT ![c] = IF r.continue THEN "recv"
                                         ELSE IF r.error = "None" THEN "returned"
                                         ELSE "failed"]
    /\ ws_ops' = Append(ws_ops, [kind |-> "frame", conn |-> c, frame |-> frame,
                                 payload |-> PyNone])
    /\ UNCHANGED <<wsocket, publisher_topic, bus_started, ws_sent>>
    /\ UNCHANGED tmx_vars
    /\ UNCHANGED proc_vars
    /\ UNCHANGED util_vars

\* Mutant of RecvClosed: the handler that ends clears the socket reference
\* if it is its own.
RecvClosed_clears_socket(c) ==
    /\ ws_pc[c] = "recv"
    /\ ws_pc' = [ws_pc EXCEPT ![c] = "returned"]
    /\ ws_error' = "None"
    /\ wsocket' = IF wsocket = c THEN "None" ELSE wsocket
    /\ UNCHANGED <<publisher_topic, bus_started, ws_published, ws_sent, ws_ops>>
    /\ UNCHANGED tmx_vars
    /\ UNCHANGED proc_vars
    /\ UNCHANGED util_vars

\* recv() raises ConnectionClosed: the client has gone, the loop ends.
RecvClosed(c) ==
    /\ ws_pc[c] = "recv"
    /\ ws_pc' = [ws_pc EXCEPT ![c] = "returned"]
    /\ ws_error' = "None"
    /\ UNCHANGED <<wsocket, publisher_topic, bus_started, ws_published, ws_sent, ws_ops>>
    /\ UNCHANGED tmx_vars
    /\ UNCHANGED proc_vars
    /\ UNCHANGED util_vars

\* A message arrives on the subscribed topic: incoming_message_processing
\* sends it on self.wsocket; send() on a closed connection raises.
BusMessage(payload) ==
    /\ bus_started
    /\ Len(ws_ops) < MaxWsMsgs
    /\ IF wsocket = "None"
       THEN ws_error' = "AttributeError" /\ UNCHANGED ws_sent
       ELSE IF ~Connected(wsocket)
       THEN ws_error' = "ConnectionClosed" /\ UNCHANGED ws_sent
       ELSE /\ ws_sent' = Append(ws_sent, [socket |-> wsocket,
                                           frame |-> incoming_message_processing(payload)])
            /\ ws_error' = "None"
    /\ ws_ops' = Append(ws_ops, [kind |-> "bus", conn |-> wsocket, frame |-> NoFrame,
                                 payload |-> payload])
    /\ UNCHANGED <<wsocket, publisher_topic, bus_started, ws_pc, ws_published>>
    /\ UNCHANGED tmx_vars
    /\ UNCHANGED proc_vars
    /\ UNCHANGED util_vars

NextWs ==
    \/ \E c \in Conns : WsgStart(c)
    \/ \E c \in Conns : WsgBegin(c)
    \/ \E c \in Conns, frame \in Frames : ReceiveFrame(c, frame)
    \/ \E c \in Conns : RecvClosed(c)
    \/ \E payload \in BusPayloads : BusMessage(payload)

(***************************************************************************)
(* The gateway processes, from start to exit.  One behaviour follows one   *)
(* process: tmx_arduino_gateway() or nr_ws_gateway().  A handler is two    *)
(* steps, its start and the return of the call it awaits, so that a        *)
(* signal can arrive in between.                                           *)
(***************************************************************************)

\* Number of events one behaviour of a process records before it takes no
\* further message.
MaxEvents == 8

Programs == {"tmx_arduino_gateway", "nr_ws_gateway"}

NoMessage == [name |-> "None", n |-> 0]

Event(ev, name, n, payload) == [ev |-> ev, name |-> name, n |-> n, payload |-> payload]

\* The messages the process has taken so far
Received == {i \in 1..Len(events) : events[i].ev = "receive"}

\* The exceptions caught around loop.run_until_complete(app.main())
MainCaught == {"KeyboardInterrupt", "CancelledError", "RuntimeError"}

\* The exceptions caught around the start of the server and run_forever()
ServeCaught == {"ConnectionClosed", "RuntimeError", "KeyboardInterrupt"}

\* What tmx_arduino_gateway() does with an exception that leaves app.main():
\* a caught one stops and closes the loop and calls sys.exit(0); SystemExit
\* carries its own code; any other one ends the interpreter with code 1.
tmx_arduino_gateway(exc, code) ==
    IF exc \in MainCaught
    THEN [events |-> <<Event("teardown", "loop.stop", 0, NoPayload),
                       Event("teardown", "loop.close", 0, NoPayload)>>,
          exit_code |-> 0]
    ELSE IF exc = "SystemExit" THEN [events |-> <<>>, exit_code |-> code]
    ELSE [events |-> <<>>, exit_code |-> 1]

\* What nr_ws_gateway() does with an exception that leaves the start of the
\* server or run_forever(): a caught one stops and closes the loop, the
\* constructor and nr_ws_gateway() return and the interpreter ends with code 0.
nr_ws_gateway(exc, code) ==
    IF exc \in ServeCaught
    THEN [events |-> <<Event("teardown", "event_loop.stop", 0, NoPayload),
                       Event("teardown", "event_loop.close", 0, NoPayload)>>,
          exit_code |-> 0]
    ELSE IF exc = "SystemExit" THEN [events |-> <<>>, exit_code |-> code]
    ELSE [events |-> <<>>, exit_code |-> 1]

\* The process ends: evs are its last events before the exit.
Exit(evs, code) ==
    /\ pc' = "exited"
    /\ exit_code' = code
    /\ events' = events \o evs \o <<Event("exit", "exit", code, NoPayload)>>
    /\ main_running' = FALSE

\* The process ends with exception exc raised at its current position.
ExitWith(exc, code) ==
    LET r == IF program = "tmx_arduino_gateway" THEN tmx_arduino_gateway(exc, code)
             ELSE nr_ws_gateway(exc, code)
    IN Exit(<<Event("raise", exc, 0, NoPayload)>> \o r.events, r.exit_code)

\* Envelopes, device reports and frames the processes are given
ProcEnvelopes ==
    {[command |-> "set_mode_digital_input", pin |-> 7, tag |-> "blue"],
     [command |-> "digital_write", pin |-> 9, value |-> 1],
     [command |-> "digital_write", pin |-> 9]}

ProcData == {<<2, 7, 1, 1690000000>>}

ProcFrames == {WrapText(CommandPayload), WrapText(PyInt(5)), <<NumTok(5)>>}

StartOutcomes == {"ok", "RuntimeError", "OSError"}

\* PinInit and the echo programs as their constructors leave them

\* A command dictionary as __init__ builds it
CommandTemplate(command) == [command |-> command, pin |-> PyStr("PIN"), tag |-> PyStr("TAG")]

\* PinInit.__init__: dig_out_command, pwm_out_command, analog_in_command,
\* servo_command
InitPinCommands ==
    [dig_out_command |-> CommandTemplate("set_mode_digital_output"),
     pwm_out_command |-> CommandTemplate("set_mode_pwm"),
     analog_in_command |-> CommandTemplate("set_mode_analog_input"),
     servo_command |-> CommandTemplate("set_mode_servo")]

InitPinInit ==
    /\ pin_commands = InitPinCommands
    /\ pin_published = <<>>
    /\ pin_received = <<>>
    /\ gw_taken = 0

\* EchoClient.__init__: number_of_messages
number_of_messages == 10

\* Both programs are constructed, the server is in its receive loop and
\* the client is about to run startup().
InitEcho ==
    /\ message_number = number_of_messages
    /\ to_server = <<>>
    /\ replies = <<>>
    /\ srv_taken = 0
    /\ srv_pc = "receive"
    /\ cli_taken = 0
    /\ cli_pc = "start"
    /\ reported = <<>>
    /\ echo_error = "None"

InitProc ==
    /\ pins_dictionary = <<>>
    /\ arduino_calls = <<>>
    /\ published = <<>>
    /\ invoked = <<>>
    /\ gw_error = "None"
    /\ main_running = FALSE
    /\ ops = <<>>
    /\ InitWs
    /\ program \in Programs
    /\ pc = "start"
    /\ exit_code = 0
    /\ handling = NoMessage
    /\ events = <<>>
    /\ InitPinInit
    /\ InitEcho

\* TmxArduinoGateway(...): the device is opened.  A RuntimeError of
\* TelemetrixAIO is raised again by __init__, outside the try of
\* tmx_arduino_gateway(), and ends the interpreter with code 1.
TmxConstruct(outcome) ==
    /\ program = "tmx_arduino_gateway"
    /\ pc = "start"
    /\ outcome \in {"ok", "RuntimeError"}
    /\ IF outcome = "ok"
       THEN /\ pc' = "begin"
            /\ events' = Append(events, Event("construct", "TelemetrixAIO", 0, NoPayload))
            /\ UNCHANGED <<exit_code, main_running>>
       ELSE Exit(<<Event("raise", outcome, 0, NoPayload)>>, 1)
    /\ UNCHANGED <<pins_dictionary, arduino_calls, published, invoked, gw_error, ops>>
    /\ UNCHANGED <<program, handling>>
    /\ UNCHANGED ws_vars
    /\ UNCHANGED util_vars

\* main(): await self.begin()
MainBegin(outcome) ==
    /\ program = "tmx_arduino_gateway"
    /\ pc = "begin"
    /\ outcome \in {"ok", "RuntimeError"}
    /\ IF outcome = "ok"
       THEN /\ pc' = "prime"
            /\ events' = Append(events, Event("begin", "begin", 0, NoPayload))
            /\ UNCHANGED <<exit_code, main_running>>
       ELSE ExitWith(outcome, 0)
    /\ UNCHANGED <<pins_dictionary, arduino_calls, published, invoked, gw_error, ops>>
    /\ UNCHANGED <<program, handling>>
    /\ UNCHANGED ws_vars
    /\ UNCHANGED util_vars

\* Mutant of MainPrime: main() enters its receive loop without publishing.
MainPrime_skipped ==
    /\ program = "tmx_arduino_gateway"
    /\ pc = "prime"
    /\ pc' = "receive"
    /\ main_running' = TRUE
    /\ UNCHANGED <<pins_dictionary, arduino_calls, published, invoked, gw_error, ops>>
    /\ UNCHANGED <<program, exit_code, handling, events>>
    /\ UNCHANGED ws_vars
    /\ UNCHANGED util_vars

\* main(): await self.publish_payload({'init_pins': 0}, 'pin_init'), then
\* the receive loop is entered.
MainPrime ==
    /\ program = "tmx_arduino_gateway"
    /\ pc = "prime"
    /\ pc' = "receive"
    /\ events' = Append(events, Event("publish", "pin_init", 0, [init_pins |-> 0]))
    /\ main_running' = TRUE
    /\ UNCHANGED <<pins_dictionary, arduino_calls, published, invoked, gw_error, ops>>
    /\ UNCHANGED <<program, exit_code, handling>>
    /\ UNCHANGED ws_vars
    /\ UNCHANGED util_vars

\* Mutant of HandlerStart: the receive loop runs before main() has published
\* its first message.
HandlerStart_before_running(payload) ==
    /\ program = "tmx_arduino_gateway"
    /\ pc \in {"prime", "receive"}
    /\ Len(events) < MaxEvents
    /\ LET r == command_dictionary(payload.command, payload)
           n == Cardinality(Received) + 1
       IN /\ r.error = "None"
          /\ gw_error' = r.error
          /\ pc' = "handler"
          /\ handling' = [name |-> payload.command, n |-> n]
          /\ events' = Append(events, Event("receive", payload.command, n, payload))
    /\ UNCHANGED <<pins_dictionary, arduino_calls, published, invoked, ops>>
    /\ UNCHANGED <<program, exit_code, main_running>>
    /\ UNCHANGED ws_vars
    /\ UNCHANGED util_vars

\* The receive loop hands a command to its handler, which reads its keys and
\* awaits its device call.  KeyError and AttributeError leave main() uncaught.
HandlerStart(payload) ==
    /\ program = "tmx_arduino_gateway"
    /\ pc = "receive"
    /\ Len(events) < MaxEvents
    /\ LET r == command_dictionary(payload.command, payload)
           n == Cardinality(Received) + 1
           ev == Event("receive", payload.command, n, payload)
       IN /\ gw_error' = r.error
          /\ IF r.error = "None"
             THEN /\ pc' = "handler"
                  /\ handling' = [name |-> payload.command, n |-> n]
                  /\ events' = Append(events, ev)
                  /\ UNCHANGED <<exit_code, main_running>>
             ELSE /\ LET x == tmx_arduino_gateway(r.error, 0) IN
                     Exit(<<ev, Event("raise", r.error, n, NoPayload)>> \o x.events,
                          x.exit_code)
                  /\ UNCHANGED handling
    /\ UNCHANGED <<pins_dictionary, arduino_calls, published, invoked, ops>>
    /\ UNCHANGED program
    /\ UNCHANGED ws_vars
    /\ UNCHANGED util_vars

\* The device call of the handler in flight returns; the receive loop goes on.
HandlerDone ==
    /\ program = "tmx_arduino_gateway"
    /\ pc = "handler"
    /\ LET payload == events[Len(events)].payload
           r == command_dictionary(payload.command, payload)
       IN arduino_calls' = arduino_calls \o r.calls
    /\ pc' = "receive"
    /\ handling' = NoMessage
    /\ events' = Append(events, Event("done", handling.name, handling.n, NoPayload))
    /\ UNCHANGED <<pins_dictionary, published, invoked, gw_error, main_running, ops>>
    /\ UNCHANGED <<program, exit_code>>
    /\ UNCHANGED ws_vars
    /\ UNCHANGED util_vars

\* The device call of the handler in flight raises RuntimeError.
DeviceRaises ==
    /\ program = "tmx_arduino_gateway"
    /\ pc = "handler"
    /\ ExitWith("RuntimeError", 0)
    /\ gw_error' = "RuntimeError"
    /\ UNCHANGED <<pins_dictionary, arduino_calls, published, invoked, ops>>
    /\ UNCHANGED <<program, handling>>
    /\ UNCHANGED ws_vars
    /\ UNCHANGED util_vars

\* The device delivers a report to a callback it was given, while main()
\* awaits the next message.
ReportDelivered(cb, data) ==
    /\ program = "tmx_arduino_gateway"
    /\ pc = "receive"
    /\ Len(events) < MaxEvents
    /\ cb \in Registered
    /\ LET r == RunCallback(cb, data) IN
        /\ r.error = "None"
        /\ events' = Append(events, Event("report", cb, 0, r.published[1].payload))
    /\ UNCHANGED tmx_vars
    /\ UNCHANGED <<program, pc, exit_code, handling>>
    /\ UNCHANGED ws_vars
    /\ UNCHANGED util_vars

\* SIGINT or SIGTERM: signal_handler calls sys.exit(0) between two bytecodes
\* of whatever the process is doing.  SystemExit is caught by neither
\* program, so the interpreter ends there; a handler in flight stays as it is.
signal_handler ==
    /\ program \in Programs
    /\ pc # "exited"
    /\ LET r == IF program = "tmx_arduino_gateway" THEN tmx_arduino_gateway("SystemExit", 0)
                ELSE nr_ws_gateway("SystemExit", 0)
       IN Exit(<<Event("signal", "signal_handler", 0, NoPayload)>> \o r.events, r.exit_code)
    /\ UNCHANGED <<pins_dictionary, arduino_calls, published, invoked, gw_error, ops>>
    /\ UNCHANGED <<program, handling>>
    /\ UNCHANGED ws_vars
    /\ UNCHANGED util_vars

\* NrWsGateway(...): the server is started and run_forever() is entered.
WsServe(outcome) ==
    /\ program = "nr_ws_gateway"
    /\ pc = "start"
    /\ IF outcome = "ok"
       THEN /\ pc' = "serving"
            /\ events' = Append(events, Event("serve", "websockets.serve", 0, NoPayload))
            /\ UNCHANGED <<exit_code, main_running>>
       ELSE ExitWith(outcome, 0)
    /\ UNCHANGED <<pins_dictionary, arduino_calls, published, invoked, gw_error, ops>>
    /\ UNCHANGED <<program, handling>>
    /\ UNCHANGED ws_vars
    /\ UNCHANGED util_vars

\* A client connects: wsg runs up to await self.begin().
WsConnect ==
    /\ program = "nr_ws_gateway"
    /\ pc = "serving"
    /\ Len(events) < MaxEvents
    /\ pc' = "wsg_begin"
    /\ events' = Append(events, Event("connect", "wsg", 0, NoPayload))
    /\ UNCHANGED tmx_vars
    /\ UNCHANGED <<program, exit_code, handling>>
    /\ UNCHANGED ws_vars
    /\ UNCHANGED util_vars

\* begin() returns: wsg enters receive_data and awaits recv().
WsBegun ==
    /\ program = "nr_ws_gateway"
    /\ pc = "wsg_begin"
    /\ pc' = "recv"
    /\ events' = Append(events, Event("begin", "begin", 0, NoPayload))
    /\ UNCHANGED tmx_vars
    /\ UNCHANGED <<program, exit_code, handling>>
    /\ UNCHANGED ws_vars
    /\ UNCHANGED util_vars

\* Mutant of WsRecv: the loop takes the next frame while the publish of the
\* previous one has not returned.
WsRecv_while_publishing(frame) ==
    /\ program = "nr_ws_gateway"
    /\ pc \in {"recv", "publish"}
    /\ Len(events) < MaxEvents
    /\ LET r == receive_data(frame, "to_arduino_gateway")
           n == Cardinality(Received) + 1
       IN /\ r.continue
          /\ pc' = "publish"
          /\ handling' = [name |-> "frame", n |-> n]
          /\ events' = Append(events, Event("receive", "frame", n, [frame |-> frame]))
    /\ UNCHANGED tmx_vars
    /\ UNCHANGED <<program, exit_code>>
    /\ UNCHANGED ws_vars
    /\ UNCHANGED util_vars

\* recv() returns a frame: it is decoded and publish_payload is awaited.  An
\* exception, or the break of the loop, ends the handler of the connection;
\* the server goes on.
WsRecv(frame) ==
    /\ program = "nr_ws_gateway"
    /\ pc = "recv"
    /\ Len(events) < MaxEvents
    /\ LET r == receive_data(frame, "to_arduino_gateway")
           n == Cardinality(Received) + 1
           ev == Event("receive", "frame", n, [frame |-> frame])
       IN IF r.continue
          THEN /\ pc' = "publish"
               /\ handling' = [name |-> "frame", n |-> n]
               /\ events' = Append(events, ev)
          ELSE /\ pc' = "serving"
               /\ UNCHANGED handling
               /\ events' = events \o <<ev, Event("raise", r.error, n, NoPayload)>>
    /\ UNCHANGED tmx_vars
    /\ UNCHANGED <<program, exit_code>>
    /\ UNCHANGED ws_vars
    /\ UNCHANGED util_vars

\* publish_payload returns; the loop of receive_data awaits recv() again.
WsPublished ==
    /\ program = "nr_ws_gateway"
    /\ pc = "publish"
    /\ pc' = "recv"
    /\ handling' = NoMessage
    /\ events' = Append(events, Event("done", handling.name, handling.n, NoPayload))
    /\ UNCHANGED tmx_vars
    /\ UNCHANGED <<program, exit_code>>
    /\ UNCHANGED ws_vars
    /\ UNCHANGED util_vars

\* recv() raises ConnectionClosed: the loop of receive_data ends.
WsClosed ==
    /\ program = "nr_ws_gateway"
    /\ pc = "recv"
    /\ pc' = "serving"
    /\ events' = Append(events, Event("closed", "ConnectionClosed", 0, NoPayload))
    /\ UNCHANGED tmx_vars
    /\ UNCHANGED <<program, exit_code, handling>>
    /\ UNCHANGED ws_vars
    /\ UNCHANGED util_vars

NextProc ==
    \/ \E outcome \in StartOutcomes : TmxConstruct(outcome)
    \/ \E outcome \in StartOutcomes : MainBegin(outcome)
    \/ MainPrime
    \/ \E payload \in ProcEnvelopes : HandlerStart(payload)
    \/ HandlerDone
    \/ DeviceRaises
    \/ \E cb \in Callbacks, data \in ProcData : ReportDelivered(cb, data)
    \/ signal_handler
    \/ \E outcome \in StartOutcomes : WsServe(outcome)
    \/ WsConnect
    \/ WsBegun
    \/ \E frame \in ProcFrames : WsRecv(frame)
    \/ WsPublished
    \/ WsClosed

(***************************************************************************)
(* PinInit: on every message it publishes the mode-setting commands of its *)
(* pin tables.  The values of a command dictionary carry their Python type *)
(* (PyStr, PyInt), as the placeholders "PIN" and "TAG" are strings.        *)
(***************************************************************************)

\* Number of messages PinInit is sent by publishers other than the gateway
MaxPinMsgs == 2

\* PinInit.__init__: publisher_topic
PinInitTopic == "to_arduino_gateway"

\* PinInit.__init__: the pin tables
digital_output_pins ==
    <<[pin |-> 9, tag |-> "blue"], [pin |-> 10, tag |-> "green"],
      [pin |-> 11, tag |-> "red"]>>

pwm_output_pins == <<[pin |-> 6, tag |-> "white"]>>

analog_input_pins == <<[pin |-> 2, tag |-> "potentiometer"]>>

servo_pins == <<[pin |-> 5, tag |-> "servo"]>>

\* Mutant of pin_tag_messages: a published message is the command dictionary
\* itself, read after the loop has ended, not its content at the call.
pin_tag_messages_by_reference(command, pins) ==
    LET left == IF pins = <<>> THEN command
                ELSE [command EXCEPT !.pin = PyInt(pins[Len(pins)].pin),
                                     !.tag = PyStr(pins[Len(pins)].tag)]
    IN [command |-> left,
        published |-> [i \in 1..Len(pins) |-> Publish(left, PinInitTopic)]]

\* pin_tag_messages: for each entry of the table the one dictionary is
\* given the entry's pin and tag and is published; publish_payload packs
\* the dictionary when it is called, so the message holds its content at
\* that moment.  The result is the dictionary as the loop leaves it and
\* the messages in order.
RECURSIVE pin_tag_messages(_, _)
pin_tag_messages(command, pins) ==
    IF pins = <<>> THEN [command |-> command, published |-> <<>>]
    ELSE LET c == [command EXCEPT !.pin = PyInt(pins[1].pin),
                                  !.tag = PyStr(pins[1].tag)]
             rest == pin_tag_messages(c, Tail(pins))
         IN [command |-> rest.command,
             published |-> <<Publish(c, PinInitTopic)>> \o rest.published]

\* PinInit.incoming_message_processing: topic and payload are not read.
PinInit_incoming_message_processing(commands) ==
    LET d == pin_tag_messages(commands.dig_out_command, digital_output_pins)
        p == pin_tag_messages(commands.pwm_out_command, pwm_output_pins)
        a == pin_tag_messages(commands.analog_in_command, analog_input_pins)
        s == pin_tag_messages(commands.servo_command, servo_pins)
    IN [commands |-> [dig_out_command |-> d.command, pwm_out_command |-> p.command,
                      analog_in_command |-> a.command, servo_command |-> s.command],
        published |-> d.published \o p.published \o a.published \o s.published]

\* Payloads other publishers send on 'pin_init' (PinInitTester sends the first)
PinInitPayloads == {[init_pins |-> 0], [init_pins |-> 1], [reset |-> 0]}

\* The gateway has published its {'init_pins': 0} on 'pin_init'
Primed == \E i \in 1..Len(events) : events[i].ev = "publish" /\ events[i].name = "pin_init"

\* The messages PinInit has handled that came from src
ReceivedFrom(src) == {i \in 1..Len(pin_received) : pin_received[i].from = src}

\* PinInit's receive loop hands it one message of topic 'pin_init': the
\* one the gateway published, or one of another publisher.
PinInitReceive(src, payload) ==
    /\ \/ /\ src = "gateway"
          /\ Primed
          /\ ReceivedFrom("gateway") = {}
          /\ payload = [init_pins |-> 0]
       \/ /\ src = "tester"
          /\ Cardinality(ReceivedFrom("tester")) < MaxPinMsgs
    /\ LET r == PinInit_incoming_message_processing(pin_commands) IN
        /\ pin_commands' = r.commands
        /\ pin_published' = pin_published \o r.published
    /\ pin_received' = Append(pin_received, [from |-> src, payload |-> payload])
    /\ UNCHANGED gw_taken
    /\ UNCHANGED tmx_vars
    /\ UNCHANGED ws_vars
    /\ UNCHANGED proc_vars
    /\ UNCHANGED echo_vars

\* The envelope the gateway's receive loop unpacks from a message of PinInit
Unpacked(message) ==
    [command |-> message.command, pin |-> message.pin.v, tag |-> message.tag.v]

\* The Arduino gateway's receive loop hands the next message of PinInit to
\* the handler its command names.  An exception that leaves the handler
\* leaves main() and ends the process.
GatewayReceive ==
    /\ program = "tmx_arduino_gateway"
    /\ pc = "receive"
    /\ gw_taken < Len(pin_published)
    /\ LET payload == Unpacked(pin_published[gw_taken + 1].payload)
           r == command_dictionary(payload.command, payload)
           n == Cardinality(Received) + 1
           ev == Event("receive", payload.command, n, payload)
       IN /\ arduino_calls' = arduino_calls \o r.calls
          /\ pins_dictionary' = pins_dictionary \o r.pin_entries
          /\ invoked' = r.invoked
          /\ gw_error' = r.error
          /\ IF r.error = "None"
             THEN /\ events' = Append(events, ev)
                  /\ UNCHANGED <<pc, exit_code, main_running>>
             ELSE LET x == tmx_arduino_gateway(r.error, 0) IN
                  Exit(<<ev, Event("raise", r.error, n, NoPayload)>> \o x.events,
                       x.exit_code)
    /\ gw_taken' = gw_taken + 1
    /\ UNCHANGED <<published, ops>>
    /\ UNCHANGED <<program, handling>>
    /\ UNCHANGED ws_vars
    /\ UNCHANGED <<pin_commands, pin_published, pin_received>>
    /\ UNCHANGED echo_vars

NextPin ==
    \/ \E outcome \in StartOutcomes : TmxConstruct(outcome)
    \/ \E outcome \in StartOutcomes : MainBegin(outcome)
    \/ MainPrime
    \/ \E payload \in PinInitPayloads : PinInitReceive("gateway", payload)
    \/ \E payload \in PinInitPayloads : PinInitReceive("tester", payload)
    \/ GatewayReceive

(***************************************************************************)
(* EchoClient and EchoServer                                               *)
(***************************************************************************)

\* Number of messages publishers other than the echo client send the server
MaxOthers == 1

EchoTopic == "asyncio_echo_client_server"

ReplyTopic == "reply"

\* Mutant of EchoServer_incoming_message_processing: the message is
\* republished on the topic it came in on.
EchoServer_republishes_on_its_topic(payload) ==
    [error |-> IF Has(payload, {"message_number"}) THEN "None" ELSE "KeyError",
     published |-> <<Publish(payload, EchoTopic)>>]

\* EchoServer.incoming_message_processing: the payload is republished on
\* 'reply', then its message number is printed.
EchoServer_incoming_message_processing(payload) ==
    [error |-> IF Has(payload, {"message_number"}) THEN "None" ELSE "KeyError",
     published |-> <<Publish(payload, ReplyTopic)>>]

\* Mutant of EchoClient_incoming_message_processing: the next message is
\* published only while the message number is above zero.
EchoClient_stops_above_zero(payload, number) ==
    IF ~Has(payload, {"message_number"})
    THEN [error |-> "KeyError", message_number |-> number, published |-> <<>>,
          printed |-> <<>>]
    ELSE IF payload.message_number = 0
    THEN [error |-> "None", message_number |-> number, published |-> <<>>,
          printed |-> <<number_of_messages>>]
    ELSE [error |-> "None", message_number |-> number - 1,
          published |-> IF number - 1 > 0
                        THEN <<Publish([message_number |-> number - 1], EchoTopic)>>
                        ELSE <<>>,
          printed |-> <<>>]

\* EchoClient.incoming_message_processing, with self.message_number being
\* number: the result is the new message number, what is published and the
\* count the completion message prints.
EchoClient_incoming_message_processing(payload, number) ==
    IF ~Has(payload, {"message_number"})
    THEN [error |-> "KeyError", message_number |-> number, published |-> <<>>,
          printed |-> <<>>]
    ELSE IF payload.message_number = 0
    THEN [error |-> "None", message_number |-> number, published |-> <<>>,
          printed |-> <<number_of_messages>>]
    ELSE [error |-> "None", message_number |-> number - 1,
          published |-> IF number - 1 >= 0
                        THEN <<Publish([message_number |-> number - 1], EchoTopic)>>
                        ELSE <<>>,
          printed |-> <<>>]

\* Payloads other publishers send on 'asyncio_echo_client_server'
OtherPayloads == {[message_number |-> 0], [message_number |-> 5], [text |-> "hello"]}

\* The messages on the server's topic that came from src
SentBy(src) == {i \in 1..Len(to_server) : to_server[i].from = src}

\* EchoClient.startup: 'reply' is subscribed to, so that replies published
\* earlier are not received, and the first message is published.
ClientStartup ==
    /\ cli_pc = "start"
    /\ cli_pc' = "receive"
    /\ cli_taken' = Len(replies)
    /\ to_server' = Append(to_server, [from |-> "client",
                                       payload |-> [message_number |-> message_number]])
    /\ UNCHANGED <<message_number, replies, srv_taken, srv_pc, reported, echo_error>>
    /\ UNCHANGED tmx_vars
    /\ UNCHANGED ws_vars
    /\ UNCHANGED proc_vars
    /\ UNCHANGED pin_vars

\* Another publisher sends a message on the server's topic.
OtherPublishes(payload) ==
    /\ Cardinality(SentBy("other")) < MaxOthers
    /\ to_server' = Append(to_server, [from |-> "other", payload |-> payload])
    /\ UNCHANGED <<message_number, replies, srv_taken, srv_pc, cli_taken, cli_pc,
                   reported, echo_error>>
    /\ UNCHANGED tmx_vars
    /\ UNCHANGED ws_vars
    /\ UNCHANGED proc_vars
    /\ UNCHANGED pin_vars

\* The server's receive loop hands it the next message of its topic.  An
\* exception leaves the handler; whether the receive loop of the library
\* goes on after it is not decided here: both outcomes are possible.
ServerReceive(goes_on) ==
    /\ srv_pc = "receive"
    /\ srv_taken < Len(to_server)
    /\ LET r == EchoServer_incoming_message_processing(to_server[srv_taken + 1].payload) IN
        /\ replies' = replies \o r.published
        /\ echo_error' = r.error
        /\ srv_pc' = IF r.error = "None" \/ goes_on THEN "receive" ELSE "stopped"
        /\ r.error = "None" => goes_on
    /\ srv_taken' = srv_taken + 1
    /\ UNCHANGED <<message_number, to_server, cli_taken, cli_pc, reported>>
    /\ UNCHANGED tmx_vars
    /\ UNCHANGED ws_vars
    /\ UNCHANGED proc_vars
    /\ UNCHANGED pin_vars

\* The client's receive loop hands it the next reply.  A completion message
\* is recorded with the number it states and, for reference, the number of
\* messages the client has published and the number of replies it has
\* received by then.
ClientReceive(goes_on) ==
    /\ cli_pc = "receive"
    /\ cli_taken < Len(replies)
    /\ LET r == EchoClient_incoming_message_processing(replies[cli_taken + 1].payload,
                                                       message_number)
       IN /\ message_number' = r.message_number
          /\ to_server' = to_server \o [i \in 1..Len(r.published) |->
                                          [from |-> "client",
                                           payload |-> r.published[i].payload]]
          /\ reported' = reported \o [i \in 1..Len(r.printed) |->
                                        [stated |-> r.printed[i],
                                         sent |-> Cardinality(SentBy("client")),
                                         echoed |-> cli_taken + 1]]
          /\ echo_error' = r.error
          /\ cli_pc' = IF r.error = "None" \/ goes_on THEN "receive" ELSE "stopped"
          /\ r.error = "None" => goes_on
    /\ cli_taken' = cli_taken + 1
    /\ UNCHANGED <<replies, srv_taken, srv_pc>>
    /\ UNCHANGED tmx_vars
    /\ UNCHANGED ws_vars
    /\ UNCHANGED proc_vars
    /\ UNCHANGED pin_vars

NextEcho ==
    \/ ClientStartup
    \/ \E payload \in OtherPayloads : OtherPublishes(payload)
    \/ \E goes_on \in BOOLEAN : ServerReceive(goes_on)
    \/ \E goes_on \in BOOLEAN : ClientReceive(goes_on)

(***************************************************************************)
(* Specifications                                                          *)
(***************************************************************************)

\* Spec and SpecWs start with both gateways up and follow no process
InitUp ==
    /\ program = "None"
    /\ pc = "None"
    /\ exit_code = 0
    /\ handling = NoMessage
    /\ events = <<>>

Init == InitTmx /\ InitWs /\ InitUp /\ InitPinInit /\ InitEcho

\* The Arduino gateway
Next == NextTmx

Spec == Init /\ [][Next]_vars

\* The WebSocket gateway
SpecWs == Init /\ [][NextWs]_vars

\* One gateway process from its start to its exit
SpecProc == InitProc /\ [][NextProc]_vars

\* The Arduino gateway process from its start, with PinInit running
InitPin ==
    /\ InitProc
    /\ program = "tmx_arduino_gateway"

SpecPin == InitPin /\ [][NextPin]_vars

\* The same, with the gateway, the bus and PinInit taking the steps they
\* can take: both are processes in their receive loops.
SpecPinFair ==
    /\ InitPin
    /\ [][NextPin]_vars
    /\ WF_vars(MainPrime)
    /\ WF_vars(PinInitReceive("gateway", [init_pins |-> 0]))
    /\ WF_vars(GatewayReceive)

\* The echo client and the echo server
SpecEcho == Init /\ [][NextEcho]_vars

\* The same, with the client, the bus and the server taking the steps they
\* can take; other publishers need not send anything.
SpecEchoFair ==
    /\ Init
    /\ [][NextEcho]_vars
    /\ WF_vars(ClientStartup)
    /\ WF_vars(\E goes_on \in BOOLEAN : ServerReceive(goes_on))
    /\ WF_vars(\E goes_on \in BOOLEAN : ClientReceive(goes_on))

(***************************************************************************)
(* The lifecycle of a gateway, as the properties observe it                *)
(***************************************************************************)

\* begin() has returned: the bus subscriptions are registered
Begun == \E i \in 1..Len(events) : events[i].ev = "begin"

\* Created before the gateway object is built, Connecting until the device
\* or listener is open and the bus is joined (and, for the Arduino gateway,
\* main() has reached its receive loop), Running from then on, Stopped
\* once the process has exited.
Lifecycle ==
    IF pc = "exited" THEN "Stopped"
    ELSE IF pc = "start" THEN "Created"
    ELSE IF program = "tmx_arduino_gateway"
    THEN (IF pc \in {"begin", "prime"} THEN "Connecting" ELSE "Running")
    ELSE (IF Begun THEN "Running" ELSE "Connecting")

Rank(state) ==
    CASE state = "Created" -> 1
      [] state = "Connecting" -> 2
      [] state = "Running" -> 3
      [] state = "Draining" -> 4
      [] state = "Stopped" -> 5

(***************************************************************************)
(* The registry and the device, as the properties observe them             *)
(***************************************************************************)

\* The entries of the pins dictionary that are about a pin
EntriesOf(pin) == {i \in 1..Len(pins_dictionary) : pins_dictionary[i].pin = pin}

MaxOf(S) == CHOOSE x \in S : \A y \in S : y <= x

\* Mode and tag the gateway records for a pin
get_mode(pin) ==
    IF EntriesOf(pin) = {} THEN "Unconfigured"
    ELSE pins_dictionary[MaxOf(EntriesOf(pin))].mode

get_tag(pin) ==
    IF EntriesOf(pin) = {} THEN "None"
    ELSE pins_dictionary[MaxOf(EntriesOf(pin))].tag

\* The configuration primitives of the device, and the pins a call configures
PinPrimitives ==
    {"set_pin_mode_analog_input", "set_pin_mode_digital_input",
     "set_pin_mode_digital_input_pullup", "set_pin_mode_digital_output",
     "set_pin_mode_servo", "set_pin_mode_tone", "set_pin_mode_analog_output"}

ConfiguredPins(call) ==
    IF call.op \in PinPrimitives THEN {call.args[1]}
    ELSE IF call.op = "set_pin_mode_sonar" THEN {call.args[1], call.args[2]}
    ELSE IF call.op = "set_pin_mode_stepper" THEN {call.list[i] : i \in 1..Len(call.list)}
    ELSE {}

ConfigCallsOf(pin) ==
    {i \in 1..Len(arduino_calls) : pin \in ConfiguredPins(arduino_calls[i])}

\* What the device holds for a pin: the primitive and the callback of the
\* latest configuration call for it (a re-configuration overwrites both).
DeviceConfig(pin) ==
    IF ConfigCallsOf(pin) = {} THEN [op |-> "None", callback |-> NoCallback]
    ELSE LET call == arduino_calls[MaxOf(ConfigCallsOf(pin))]
         IN [op |-> call.op, callback |-> call.callback]

\* The observable state of the registry: what is recorded and, per pin,
\* the mode, the tag and the callback slot
RegistryState ==
    [dictionary |-> pins_dictionary,
     mode |-> [p \in Pins |-> get_mode(p)],
     tag |-> [p \in Pins |-> get_tag(p)],
     callback |-> [p \in Pins |-> DeviceConfig(p).callback]]

(***************************************************************************)
(* Observations used by the properties                                     *)
(***************************************************************************)

Last(seq) == seq[Len(seq)]

\* The latest operation is a dispatch / a device callback
LastIsDispatch == Len(ops) > 0 /\ Last(ops).kind = "dispatch"
LastIsCallback == Len(ops) > 0 /\ Last(ops).kind = "callback"

(***************************************************************************)
(* C1  For every command name that has a handler, dispatching an envelope  *)
(* with that name runs exactly the handler of that name, once, and no      *)
(* other handler.                                                          *)
(***************************************************************************)
C1_DispatchRunsNamedHandler ==
    LastIsDispatch => invoked = <<Last(ops).payload.command>>

C1_Witness ==
    /\ Len(ops) = 2
    /\ ops[1].kind = "dispatch" /\ ops[1].name = "set_mode_tone"
    /\ LastIsDispatch /\ Last(ops).name = "pwm_write"
    /\ invoked = <<"pwm_write">>
    /\ Last(arduino_calls).op = "analog_write"

\* The pins (resources) a mode-setting envelope names
TargetPins(payload) ==
    (IF "pin" \in DOMAIN payload THEN {payload.pin} ELSE {})
    \cup (IF "trigger_pin" \in DOMAIN payload THEN {payload.trigger_pin} ELSE {})
    \cup (IF "echo_pin" \in DOMAIN payload THEN {payload.echo_pin} ELSE {})
    \cup (IF "pins" \in DOMAIN payload
          THEN {payload.pins[i] : i \in 1..Len(payload.pins)} ELSE {})

\* The mode-setting commands dispatched so far that name the pin
ModeOpsOf(pin) ==
    {i \in 1..Len(ops) : /\ ops[i].kind = "dispatch"
                         /\ ops[i].name \in ModeCommands
                         /\ pin \in TargetPins(ops[i].payload)}

\* The mode a mode-setting command asks for
ModeOfCommand(command) ==
    CASE command = "set_mode_analog_input" -> "AnalogInput"
      [] command = "set_mode_digital_input" -> "DigitalInput"
      [] command = "set_mode_digital_input_pullup" -> "DigitalInputPullup"
      [] command = "set_mode_digital_output" -> "DigitalOutput"
      [] command = "set_mode_i2c" -> "I2C"
      [] command = "set_mode_pwm" -> "PWM"
      [] command = "set_mode_servo" -> "Servo"
      [] command = "set_mode_sonar" -> "Sonar"
      [] command = "set_mode_stepper" -> "Stepper"
      [] command = "set_mode_tone" -> "Tone"

\* The device primitive that configures a mode, and the callback a mode
\* reports through
PrimitiveOfMode(mode) ==
    CASE mode = "AnalogInput" -> "set_pin_mode_analog_input"
      [] mode = "DigitalInput" -> "set_pin_mode_digital_input"
      [] mode = "DigitalInputPullup" -> "set_pin_mode_digital_input_pullup"
      [] mode = "DigitalOutput" -> "set_pin_mode_digital_output"
      [] mode = "I2C" -> "set_pin_mode_i2c"
      [] mode = "PWM" -> "set_pin_mode_analog_output"
      [] mode = "Servo" -> "set_pin_mode_servo"
      [] mode = "Sonar" -> "set_pin_mode_sonar"
      [] mode = "Stepper" -> "set_pin_mode_stepper"
      [] mode = "Tone" -> "set_pin_mode_tone"

CallbackOfMode(mode) ==
    CASE mode \in {"DigitalInput", "DigitalInputPullup"} -> "digital_input_callback"
      [] mode = "AnalogInput" -> "analog_input_callback"
      [] mode = "Sonar" -> "sonar_callback"
      [] OTHER -> NoCallback

CarriesItsKeys(payload) ==
    CASE payload.command = "set_mode_sonar" -> Has(payload, {"trigger_pin", "echo_pin"})
      [] payload.command = "set_mode_stepper" ->
            Has(payload, {"steps_per_revolution", "pins"})
      [] payload.command = "set_mode_i2c" -> TRUE
      [] OTHER -> Has(payload, {"pin"})

\* The mode-setting commands for the pin whose handler reaches the device:
\* those that carry their keys, but for set_mode_pwm, which fails before any
\* device call.
ReachingModeOpsOf(pin) ==
    {i \in ModeOpsOf(pin) : ops[i].name # "set_mode_pwm" /\ CarriesItsKeys(ops[i].payload)}

C4_ModeSettingIdempotent ==
    [][(/\ LastIsDispatch
        /\ Last(ops).name \in ModeCommands
        /\ ops' = Append(ops, Last(ops)))
       => RegistryState' = RegistryState]_vars

C4_Witness ==
    /\ Len(ops) = 2
    /\ ops[1] = ops[2]
    /\ ops[1].kind = "dispatch" /\ ops[1].name = "set_mode_digital_input"
    /\ Len(arduino_calls) = 2 /\ arduino_calls[1] = arduino_calls[2]
    /\ DeviceConfig(ops[1].payload.pin).callback = "digital_input_callback"

(***************************************************************************)
(* C5  A digital_input or analog_input callback with raw data              *)
(* [mode, pin, value, timestamp] publishes the report                      *)
(* {report: kind, pin: data[1], value: data[2], timestamp: data[3]} of     *)
(* its own kind.                                                           *)
(***************************************************************************)
C5_InputReportFields ==
    (/\ LastIsCallback
     /\ Last(ops).name \in {"digital_input_callback", "analog_input_callback"}
     /\ Len(Last(ops).data) = 4)
    => /\ Len(published) > 0
       /\ Last(published).payload =
            [report |-> IF Last(ops).name = "digital_input_callback"
                        THEN "digital_input" ELSE "analog_input",
             pin |-> Last(ops).data[2],
             value |-> Last(ops).data[3],
             timestamp |-> Last(ops).data[4]]

\* raw data [mode, 7, 1, 1690000000] on the digital callback
C5_Witness ==
    /\ LastIsCallback
    /\ Last(ops).name = "digital_input_callback"
    /\ Last(ops).data = <<2, 7, 1, 1690000000>>
    /\ Len(published) = 1
    /\ published[1].payload = [report |-> "digital_input", pin |-> 7, value |-> 1,
                               timestamp |-> 1690000000]

(***************************************************************************)
(* C6  set_mode_digital_output for pin 9 and then digital_write for pin 9  *)
(* make exactly one configuration call followed by exactly one write call  *)
(* on the device, and the second command creates no registry entry.        *)
(***************************************************************************)
C6_SetOutput ==
    [kind |-> "dispatch", name |-> "set_mode_digital_output",
     payload |-> [command |-> "set_mode_digital_output", pin |-> 9, tag |-> "blue"],
     data |-> <<>>]

C6_Write ==
    [kind |-> "dispatch", name |-> "digital_write",
     payload |-> [command |-> "digital_write", pin |-> 9, value |-> 1],
     data |-> <<>>]

C6_ConfigureThenWrite ==
    [][(ops = <<C6_SetOutput>> /\ ops' = <<C6_SetOutput, C6_Write>>)
       => /\ arduino_calls = <<[op |-> "set_pin_mode_digital_output", args |-> <<9>>,
                                list |-> <<>>, callback |-> "None"]>>
          /\ arduino_calls' = Append(arduino_calls,
                                     [op |-> "digital_write", args |-> <<9, 1>>,
                                      list |-> <<>>, callback |-> "None"])
          /\ pins_dictionary' = pins_dictionary]_vars

C6_Witness ==
    /\ ops = <<C6_SetOutput, C6_Write>>
    /\ Len(arduino_calls) = 2
    /\ arduino_calls[1].op = "set_pin_mode_digital_output"
    /\ arduino_calls[2].op = "digital_write"
    /\ pins_dictionary = <<>>

\* The pieces of a text between the separators ", "
RECURSIVE Fields(_)
Fields(text) ==
    LET cuts == {i \in 1..(Len(text) - 1) : text[i] = "," /\ text[i + 1] = " "} IN
    IF cuts = {} THEN <<text>>
    ELSE LET i == CHOOSE c \in cuts : \A d \in cuts : c <= d
         IN <<SubSeq(text, 1, i - 1)>> \o Fields(SubSeq(text, i + 2, Len(text)))

IsNumeral(text) ==
    Len(text) > 0 /\ \A i \in 1..Len(text) : \E d \in 1..10 : Digits[d] = text[i]

\* The number a decimal numeral stands for
RECURSIVE NumeralValue(_)
NumeralValue(text) ==
    IF Len(text) = 0 THEN 0
    ELSE 10 * NumeralValue(SubSeq(text, 1, Len(text) - 1))
         + ((CHOOSE d \in 1..10 : Digits[d] = Last(text)) - 1)

(***************************************************************************)
(* C8  An i2c callback with an empty data sequence publishes the report    *)
(* {report: "i2c_data", value: ""} and raises nothing; for a non-empty     *)
(* sequence the value is the textual forms of the elements, in their       *)
(* order, joined by ", ".                                                  *)
(***************************************************************************)
C8_I2cReportJoinsData ==
    (LastIsCallback /\ Last(ops).name = "i2c_callback")
    => LET data == Last(ops).data IN
       /\ gw_error = "None"
       /\ Len(published) > 0
       /\ Last(published).payload.report = "i2c_data"
       /\ LET value == Last(published).payload.value IN
          IF data = <<>> THEN value = <<>>
          ELSE /\ Len(Fields(value)) = Len(data)
               /\ \A i \in 1..Len(data) :
                    /\ IsNumeral(Fields(value)[i])
                    /\ NumeralValue(Fields(value)[i]) = data[i]

C8_Witness ==
    /\ Len(ops) = 3
    /\ ops[2].kind = "callback" /\ ops[2].name = "i2c_callback"
    /\ ops[2].data = <<2, 7, 1, 1690000000>>
    /\ ops[3].kind = "callback" /\ ops[3].name = "i2c_callback" /\ ops[3].data = <<>>
    /\ gw_error = "None"
    /\ Len(published) = 2
    /\ Len(published[1].payload.value) = 19
    /\ published[2].payload = [report |-> "i2c_data", value |-> <<>>]

\* The callback reads an index its data does not have
ShortFor(cb, data) ==
    \/ cb \in {"digital_input_callback", "analog_input_callback"} /\ Len(data) < 4
    \/ cb = "sonar_callback" /\ Len(data) < 3

(***************************************************************************)
(* C10  A digital, analog or sonar callback whose raw data is shorter      *)
(* than the indices it reads publishes no report, and the index error      *)
(* does not leave the callback.                                            *)
(***************************************************************************)
C10_ShortDataIsDropped ==
    [][(/\ Len(ops') = Len(ops) + 1
        /\ Last(ops').kind = "callback"
        /\ ShortFor(Last(ops').name, Last(ops').data))
       => /\ published' = published
          /\ gw_error' = "None"]_vars

FrameOp(c, frame) == [kind |-> "frame", conn |-> c, frame |-> frame, payload |-> PyNone]

BusOp(c, payload) == [kind |-> "bus", conn |-> c, frame |-> NoFrame, payload |-> payload]

(***************************************************************************)
(* C7  Every frame the gateway receives that decodes to {payload: P} is    *)
(* published exactly once, as P itself and not the wrapping object, on     *)
(* the topic "to_arduino_gateway", the same for every frame of every       *)
(* connection.                                                             *)
(***************************************************************************)
C7_FramePayloadRepublished ==
    [][\A c \in Conns, P \in FramePayloads :
        ws_ops' = Append(ws_ops, FrameOp(c, WrapText(P)))
        => ws_published' = Append(ws_published,
                                  [topic |-> "to_arduino_gateway", payload |-> P])]_vars

\* The frame {"payload": {"command": "digital_write", "pin": 9, "value": 0}}
\* on one connection, then a frame on the other
C7_Witness ==
    /\ Len(ws_ops) = 2
    /\ ws_ops[1] = FrameOp("ws1", WrapText(CommandPayload))
    /\ ws_ops[2] = FrameOp("ws2", WrapText(PyInt(5)))
    /\ ws_published = <<[topic |-> "to_arduino_gateway", payload |-> CommandPayload],
                        [topic |-> "to_arduino_gateway", payload |-> PyInt(5)]>>

(***************************************************************************)
(* C9  Every bus message with payload P that arrives while a client is     *)
(* connected is sent to a connected client as exactly one text frame that  *)
(* decodes to {payload: P}, and that frame, fed back through the receive   *)
(* path, publishes P unchanged.                                            *)
(***************************************************************************)
C9_BusMessageReachesClient ==
    [][\A P \in BusPayloads :
        (/\ ws_ops' = Append(ws_ops, BusOp(wsocket, P))
         /\ \E c \in Conns : Connected(c))
        => /\ Len(ws_sent') = Len(ws_sent) + 1
           /\ Connected(Last(ws_sent').socket)
           /\ json_loads(Last(ws_sent').frame) =
                [ok |-> TRUE, value |-> PyDict(<<Item("payload", P)>>)]
           /\ receive_data(Last(ws_sent').frame, "to_arduino_gateway").published =
                <<[topic |-> "to_arduino_gateway", payload |-> P]>>]_vars

\* The keys the handler of a command reads from its envelope
RequiredKeys(command) ==
    CASE command \in {"digital_write", "pwm_write"} -> {"pin", "value"}
      [] command = "servo_position" -> {"pin", "position"}
      [] command = "play_tone" -> {"pin", "freq", "duration"}
      [] command = "i2c_read" -> {"addr", "register", "number_of_bytes"}
      [] command = "i2c_write" -> {"addr", "data"}
      [] command = "stepper_write" -> {"motor_speed", "number_of_steps"}
      [] command = "set_mode_sonar" -> {"trigger_pin", "echo_pin"}
      [] command = "set_mode_stepper" -> {"steps_per_revolution", "pins"}
      [] command = "set_mode_i2c" -> {}
      [] OTHER -> {"pin"}

\* The envelope lacks a key its handler reads
LacksAKey(payload) == ~Has(payload, RequiredKeys(payload.command))

(***************************************************************************)
(* C11  A command envelope that lacks a key its handler reads is dropped   *)
(* without any device call, no error leaves its dispatch, and the gateway  *)
(* goes on dispatching the commands that arrive afterwards.                *)
(***************************************************************************)
C11_MalformedCommandIsDropped ==
    [][(/\ Len(ops') = Len(ops) + 1
        /\ Last(ops').kind = "dispatch"
        /\ LacksAKey(Last(ops').payload))
       => /\ arduino_calls' = arduino_calls
          /\ gw_error' = "None"
          /\ main_running']_vars

\* The events i at which the process took a message / finished one
ReceiveEvents == {i \in 1..Len(events) : events[i].ev = "receive"}

FinishEvents == {i \in 1..Len(events) : events[i].ev \in {"done", "raise"}}

(***************************************************************************)
(* C13  The messages of one source (the commands of the bus topic, the     *)
(* frames of the WebSocket connection) are processed in the order they     *)
(* are received: the k-th message received is the k-th started, and a      *)
(* message is started only after the device call or publish of the         *)
(* previous one has returned (or has ended the loop that took it).         *)
(***************************************************************************)
C13_ProcessedInArrivalOrder ==
    /\ \A i \in ReceiveEvents :
         events[i].n = Cardinality({j \in ReceiveEvents : j <= i})
    /\ \A i, j \in ReceiveEvents :
         i < j => \E k \in FinishEvents :
                    i < k /\ k < j /\ events[k].n = events[i].n
    /\ \A k \in FinishEvents :
         events[k].n > 0 =>
            \E i \in ReceiveEvents :
               /\ i < k /\ events[i].n = events[k].n
               /\ \A j \in ReceiveEvents : ~(i < j /\ j < k)

\* Two frames of one connection, the second taken after the publish of the
\* first returned
C13_Witness ==
    /\ program = "nr_ws_gateway"
    /\ Len(events) = 7
    /\ events[4].ev = "receive" /\ events[4].payload.frame = WrapText(CommandPayload)
    /\ events[5].ev = "done" /\ events[5].n = 1
    /\ events[6].ev = "receive" /\ events[6].payload.frame = WrapText(PyInt(5))
    /\ events[6].n = 2
    /\ events[7].ev = "done" /\ events[7].n = 2

\* The connections whose handler wsg is in the loop of receive_data
InReceiveLoop == {c \in Conns : ws_pc[c] = "recv"}

(***************************************************************************)
(* C14  The WebSocket gateway has at most one active client connection at  *)
(* any time: no two connection handlers are in their receive loops at      *)
(* once.                                                                   *)
(***************************************************************************)
C14_AtMostOneConnection ==
    /\ Cardinality({c \in Conns : Connected(c)}) <= 1
    /\ Cardinality(InReceiveLoop) <= 1

(***************************************************************************)
(* C15  When the connection closes, the receive loop ends without an       *)
(* error, and a bus message that arrives after the close raises no         *)
(* unhandled error.                                                        *)
(***************************************************************************)
C15_CloseThenBusMessage ==
    [][/\ (\A c \in Conns :
             (ws_pc[c] = "recv" /\ ws_pc'[c] = "returned" /\ ws_ops' = ws_ops)
             => ws_error' = "None")
       /\ (\A P \in BusPayloads :
             (/\ ws_ops' = Append(ws_ops, BusOp(wsocket, P))
              /\ \E c \in Conns : ws_pc[c] = "returned")
             => ws_error' = "None")]_vars

\* The events at which a signal arrived / a device or transport connection
\* was closed
SignalEvents(evs) == {i \in 1..Len(evs) : evs[i].ev = "signal"}

CloseEvents(evs) ==
    {i \in 1..Len(evs) : evs[i].ev = "teardown"
                         /\ evs[i].name \in {"arduino.shutdown", "wsocket.close"}}

(***************************************************************************)
(* C16  On an interrupt or termination signal the process takes no new     *)
(* message, the handler in flight runs to completion, then the device and  *)
(* transport connections are closed, and only then the process exits.      *)
(***************************************************************************)
C16_OrderlyShutdown ==
    [][(pc # "exited" /\ pc' = "exited" /\ SignalEvents(events') # {})
       => LET sig == CHOOSE i \in SignalEvents(events') : TRUE IN
          /\ \A i \in (sig + 1)..Len(events') : events'[i].ev # "receive"
          /\ handling # NoMessage =>
               \E i \in (sig + 1)..Len(events') :
                  events'[i].ev = "done" /\ events'[i].n = handling.n
          /\ (\E i \in 1..Len(events) : events[i].ev \in {"construct", "serve"}) =>
               \E i \in CloseEvents(events') : sig < i /\ i < Len(events')
          /\ events'[Len(events')].ev = "exit"]_vars

\* The process ended because the device connection or the transport
\* listener could not be established
StartupFailed ==
    /\ pc = "exited"
    /\ SignalEvents(events) = {}
    /\ \A i \in 1..Len(events) : events[i].ev \notin {"construct", "serve"}

(***************************************************************************)
(* C17  The process exits with code 0 exactly when it stops through a      *)
(* signal, and with a code other than 0 whenever its startup fails.        *)
(***************************************************************************)
C17_ExitCodes ==
    pc = "exited" =>
        /\ (exit_code = 0) <=> (SignalEvents(events) # {})
        /\ StartupFailed => exit_code # 0

\* The events that take, finish or translate a message
DispatchEvents == {"receive", "done", "report"}

(***************************************************************************)
(* C18  The lifecycle of a gateway never moves backward along Created,     *)
(* Connecting, Running, Draining, Stopped; Stopped is never left; and a    *)
(* command is dispatched, a frame republished or a report translated only  *)
(* while the gateway is Running.                                           *)
(***************************************************************************)
C18_LifecycleForward ==
    [][/\ Rank(Lifecycle') >= Rank(Lifecycle)
       /\ Lifecycle = "Stopped" => Lifecycle' = "Stopped"
       /\ \A i \in (Len(events) + 1)..Len(events') :
            events'[i].ev \in DispatchEvents => Lifecycle = "Running"]_vars

\* The Arduino gateway has dispatched a command, translated a report and
\* was then stopped by a signal
C18_Witness ==
    /\ program = "tmx_arduino_gateway"
    /\ Lifecycle = "Stopped"
    /\ \E i, j, k \in 1..Len(events) :
         /\ i < j /\ j < k
         /\ events[i].ev = "done" /\ events[i].name = "set_mode_digital_input"
         /\ events[j].ev = "report" /\ events[j].name = "digital_input_callback"
         /\ events[k].ev = "signal"

\* The events at which {init_pins: 0} was published on 'pin_init'
PrimingEvents ==
    {i \in 1..Len(events) : /\ events[i].ev = "publish"
                            /\ events[i].name = "pin_init"
                            /\ events[i].payload = [init_pins |-> 0]}

(***************************************************************************)
(* C19  The Arduino gateway publishes {init_pins: 0} on 'pin_init' exactly *)
(* once in the life of its process: once it is Running the message has     *)
(* been published, it is never published twice, it follows the return of   *)
(* begin(), and it precedes every command received or dispatched.          *)
(***************************************************************************)
C19_PrimedOnceBeforeCommands ==
    program = "tmx_arduino_gateway" =>
        /\ Cardinality(PrimingEvents) <= 1
        /\ pc \in {"receive", "handler"} => Cardinality(PrimingEvents) = 1
        /\ \A p \in PrimingEvents : \E b \in 1..(p - 1) : events[b].ev = "begin"
        /\ \A i \in 1..Len(events) :
             events[i].ev \in DispatchEvents => \E p \in PrimingEvents : p < i

\* begin() returned, the message was published, then a command was handled
C19_Witness ==
    /\ program = "tmx_arduino_gateway"
    /\ Len(events) = 5
    /\ events[2].ev = "begin"
    /\ PrimingEvents = {3}
    /\ events[4].ev = "receive" /\ events[4].name = "digital_write"
    /\ events[5].ev = "done"
    /\ pc = "receive"

(***************************************************************************)
(* C20  Every mode-setting handler, given an envelope that carries its     *)
(* keys, makes exactly one call on the device: the configuration           *)
(* primitive of its own mode, for the pins the envelope names, with a      *)
(* callback exactly when the mode reports asynchronously.                  *)
(***************************************************************************)
C20_ModeHandlerConfiguresItsMode ==
    [][(/\ Len(ops') = Len(ops) + 1
        /\ Last(ops').kind = "dispatch"
        /\ Last(ops').name \in ModeCommands
        /\ ~LacksAKey(Last(ops').payload))
       => LET mode == ModeOfCommand(Last(ops').name) IN
          /\ Len(arduino_calls') = Len(arduino_calls) + 1
          /\ Last(arduino_calls').op = PrimitiveOfMode(mode)
          /\ Last(arduino_calls').callback = CallbackOfMode(mode)
          /\ ConfiguredPins(Last(arduino_calls')) = TargetPins(Last(ops').payload)]_vars

ValueCommands ==
    {"digital_write", "pwm_write", "servo_position", "play_tone", "stepper_write",
     "i2c_write", "i2c_read"}

\* The device call a value-setting envelope asks for
ValueCall(payload) ==
    CASE payload.command = "digital_write" ->
            [op |-> "digital_write", args |-> <<payload.pin, payload.value>>,
             list |-> <<>>, callback |-> "None"]
      [] payload.command = "pwm_write" ->
            [op |-> "analog_write", args |-> <<payload.pin, payload.value>>,
             list |-> <<>>, callback |-> "None"]
      [] payload.command = "servo_position" ->
            [op |-> "servo_write", args |-> <<payload.pin, payload.position>>,
             list |-> <<>>, callback |-> "None"]
      [] payload.command = "play_tone" ->
            [op |-> "play_tone", args |-> <<payload.pin, payload.freq, payload.duration>>,
             list |-> <<>>, callback |-> "None"]
      [] payload.command = "stepper_write" ->
            [op |-> "stepper_write",
             args |-> <<payload.motor_speed, payload.number_of_steps>>,
             list |-> <<>>, callback |-> "None"]
      [] payload.command = "i2c_write" ->
            [op |-> "i2c_write", args |-> <<payload.addr>>, list |-> payload.data,
             callback |-> "None"]
      [] payload.command = "i2c_read" ->
            [op |-> "i2c_read",
             args |-> <<payload.addr, payload.register, payload.number_of_bytes>>,
             list |-> <<>>, callback |-> "i2c_callback"]

(***************************************************************************)
(* C21  Every value-setting command whose envelope carries its parameters  *)
(* makes exactly one call on the device, with those parameters, and        *)
(* leaves the registry as it was, whether or not the pin was configured    *)
(* before; it is never rejected for a missing mode.                        *)
(***************************************************************************)
C21_ValueCommandOneCall ==
    [][(/\ Len(ops') = Len(ops) + 1
        /\ Last(ops').kind = "dispatch"
        /\ Last(ops').name \in ValueCommands
        /\ ~LacksAKey(Last(ops').payload))
       => /\ arduino_calls' = Append(arduino_calls, ValueCall(Last(ops').payload))
          /\ RegistryState' = RegistryState
          /\ gw_error' = "None"
          /\ main_running']_vars

\* play_tone for pin 9, which no command has configured, then digital_write
\* for pin 9 after all
C21_Witness ==
    /\ Len(ops) = 2
    /\ ops[1].name = "play_tone" /\ ops[2].name = "digital_write"
    /\ ConfigCallsOf(9) = {}
    /\ Len(arduino_calls) = 2
    /\ arduino_calls[1].op = "play_tone" /\ arduino_calls[1].args = <<9, 440, 500>>
    /\ arduino_calls[2].op = "digital_write" /\ arduino_calls[2].args = <<9, 1>>
    /\ pins_dictionary = <<>>

\* The device events so far whose data has every index the callback reads
WellFormedEvents ==
    {i \in 1..Len(ops) : ops[i].kind = "callback" /\ ~ShortFor(ops[i].name, ops[i].data)}

\* The k-th of them
NthWellFormed(k) ==
    CHOOSE i \in WellFormedEvents : Cardinality({j \in WellFormedEvents : j <= i}) = k

ReportKind(cb) ==
    CASE cb = "digital_input_callback" -> "digital_input"
      [] cb = "analog_input_callback" -> "analog_input"
      [] cb = "i2c_callback" -> "i2c_data"
      [] cb = "sonar_callback" -> "sonar_data"

(***************************************************************************)
(* C22  Each device event with well-formed data publishes exactly one      *)
(* report, on 'from_arduino_gateway': after n such events exactly n        *)
(* reports have been published, the k-th report is that of the k-th        *)
(* event, and the value of a sonar report is raw_data[2].                  *)
(***************************************************************************)
C22_OneReportPerEvent ==
    /\ Len(published) = Cardinality(WellFormedEvents)
    /\ \A k \in 1..Len(published) :
         /\ published[k].topic = "from_arduino_gateway"
         /\ k <= Cardinality(WellFormedEvents) =>
              LET op == ops[NthWellFormed(k)] IN
              /\ published[k].payload.report = ReportKind(op.name)
              /\ op.name = "sonar_callback" =>
                   published[k].payload = [report |-> "sonar_data", value |-> op.data[3]]

\* Two sonar events with the same data: two reports
C22_Witness ==
    /\ Len(ops) = 3
    /\ ops[1].name = "set_mode_sonar"
    /\ ops[2].name = "sonar_callback" /\ ops[2].data = <<2, 7, 1, 1690000000>>
    /\ ops[3] = ops[2]
    /\ published = <<[topic |-> "from_arduino_gateway",
                      payload |-> [report |-> "sonar_data", value |-> 1]],
                     [topic |-> "from_arduino_gateway",
                      payload |-> [report |-> "sonar_data", value |-> 1]]>>

\* A mode-setting message of PinInit as the bus carries it
PinCommand(command, pin, tag) ==
    Publish([command |-> command, pin |-> PyInt(pin), tag |-> PyStr(tag)],
            "to_arduino_gateway")

\* The six commands in the order PinInit is to publish them
SixCommands ==
    <<PinCommand("set_mode_digital_output", 9, "blue"),
      PinCommand("set_mode_digital_output", 10, "green"),
      PinCommand("set_mode_digital_output", 11, "red"),
      PinCommand("set_mode_pwm", 6, "white"),
      PinCommand("set_mode_analog_input", 2, "potentiometer"),
      PinCommand("set_mode_servo", 5, "servo")>>

C24_ServerEchoesEachOnce ==
    /\ Len(replies) = srv_taken
    /\ \A i \in 1..Len(replies) :
         /\ replies[i].topic = "reply"
         /\ replies[i].payload = to_server[i].payload

\* The server has echoed a message of the client and one of another
\* publisher that has no message number.
C24_Witness ==
    /\ srv_taken = 2
    /\ to_server[1].from = "client"
    /\ to_server[2] = [from |-> "other", payload |-> [text |-> "hello"]]
    /\ Len(replies) = 2
    /\ replies[2].payload = [text |-> "hello"]

\* Only the echo client has published on the server's topic
TwoPartyExchange == SentBy("other") = {}

\* C25: when the echo client reports completion in an exchange between it
\* and the server alone, the number of messages it has sent and the number
\* it has had echoed both equal the number its completion message states,
\* number_of_messages (10).
C25_CompletionCountMatches ==
    TwoPartyExchange =>
        \A k \in 1..Len(reported) :
            /\ reported[k].stated = 10
            /\ reported[k].sent = reported[k].stated
            /\ reported[k].echoed = reported[k].stated

\* The message numbers published so far go down by one from the start
\* value and none is below 0.
NumbersDecreaseByOne ==
    \A i \in 1..Len(to_server) :
        /\ to_server[i].payload = [message_number |-> 10 - (i - 1)]
        /\ 10 - (i - 1) >= 0

\* The client has received the reply numbered 0
ReceivedReplyZero ==
    \E i \in 1..cli_taken : replies[i].payload = [message_number |-> 0]

\* Nothing was published by the client after it received the reply numbered 0
SilentAfterReplyZero ==
    ReceivedReplyZero =>
        /\ Len(reported) = 1
        /\ Cardinality(SentBy("client")) = reported[1].sent

\* C26: in an exchange between the echo client and an echo server that
\* replies to every message, the message numbers the client publishes go
\* down by one from its start value and never below 0, the client
\* eventually receives the reply numbered 0, and after that it publishes
\* nothing more.
C26_ExchangeTerminates ==
    []TwoPartyExchange =>
        /\ [](NumbersDecreaseByOne /\ SilentAfterReplyZero)
        /\ <>ReceivedReplyZero

\* The exchange between the two alone has run to its end.
C26_Witness ==
    /\ TwoPartyExchange
    /\ ReceivedReplyZero
    /\ Len(to_server) = 11
    /\ srv_taken = 11
    /\ cli_taken = 11
    /\ message_number = 0

\* The device has received a call that configures the pin
ConfiguredOnDevice(pin) ==
    \E i \in 1..Len(arduino_calls) :
        /\ arduino_calls[i].op \in PinPrimitives
        /\ arduino_calls[i].args # <<>>
        /\ arduino_calls[i].args[1] = pin

\* The pins of PinInit's six commands, in its publication order
PrimedPins == <<9, 10, 11, 6, 2, 5>>

\* C27: once the Arduino gateway has published its {'init_pins': 0} with
\* PinInit running, the device eventually has received a configuration
\* call for each of PinInit's six commands: pins 9, 10, 11, 6, 2 and 5.
C27_PrimingConfiguresAll ==
    Primed ~> \A k \in 1..Len(PrimedPins) : ConfiguredOnDevice(PrimedPins[k])

\* C28: the bus side of the WebSocket gateway is started only after a
\* connection handler has set the socket reference and the publisher
\* topic: whenever a bus message is handed to the transport or a frame is
\* published, wsocket is not None and publisher_topic is
\* 'to_arduino_gateway', which is also the topic published on.
C28_SocketAndTopicSetBeforeBegin ==
    [][/\ bus_started' => (wsocket' # "None" /\ publisher_topic' = "to_arduino_gateway")
       /\ ws_ops' # ws_ops
          => /\ wsocket # "None"
             /\ publisher_topic = "to_arduino_gateway"
             /\ ws_error' # "AttributeError"
             /\ \A i \in 1..Len(ws_published') :
                  ws_published'[i].topic = "to_arduino_gateway"]_vars

\* A frame has been published to the bus and a bus message has been sent
\* to the client.
C28_Witness ==
    /\ Len(ws_published) = 1
    /\ Len(ws_sent) = 1
    /\ ws_sent[1].socket = wsocket
    /\ ws_published[1].topic = publisher_topic

\* The payload of the frame cannot be extracted: it is not the text of an
\* object with the key 'payload'
BadFrame(frame) == frame \notin {WrapText(P) : P \in FramePayloads}

\* The frames received so far, as positions in ws_ops
FramesReceived == {i \in 1..Len(ws_ops) : ws_ops[i].kind = "frame"}

\* C29: a frame whose payload cannot be extracted ends the receive loop of
\* its connection: no later frame of that connection is received, so none
\* is published, and nothing is published for the bad frame; the frames
\* published are the other ones.
C29_BadFrameEndsLoop ==
    /\ \A i \in FramesReceived :
         BadFrame(ws_ops[i].frame)
         => /\ ws_pc[ws_ops[i].conn] \in {"returned", "failed"}
            /\ \A j \in FramesReceived : j > i => ws_ops[j].conn # ws_ops[i].conn
    /\ Len(ws_published) = Cardinality({i \in FramesReceived : ~BadFrame(ws_ops[i].frame)})

\* A connection has sent a well-formed frame, which was published, and
\* then a frame without the key: its loop has ended with nothing more
\* published.
C29_Witness ==
    /\ ws_ops = <<FrameOp("ws1", WrapText(CommandPayload)),
                  FrameOp("ws1", <<Punct("{"), StrTok("topic"), Punct(":"),
                                   StrTok("x"), Punct("}")>>)>>
    /\ ws_pc["ws1"] = "failed"
    /\ Len(ws_published) = 1

\* C30: the gateway keeps one socket reference: a new connection
\* overwrites it, nothing else changes it (a handler that ends neither
\* clears nor restores it), and every frame sent for a bus message goes to
\* the connection it refers to, the one that connected last.
C30_SingleSocketReference ==
    [][/\ \A c \in Conns : (ws_pc[c] = "idle" /\ ws_pc'[c] # "idle") => wsocket' = c
       /\ wsocket' # wsocket
          => /\ wsocket' \in Conns
             /\ ws_pc[wsocket'] = "idle"
             /\ ws_pc'[wsocket'] = "begin"
       /\ ws_sent' # ws_sent
          => /\ Len(ws_sent') = Len(ws_sent) + 1
             /\ Last(ws_sent').socket = wsocket]_vars

\* The first client is still connected and has been sent nothing, the
\* second one has closed, and a bus message was handed to the closed
\* connection.
C30_Witness ==
    /\ Connected("ws1")
    /\ ws_pc["ws2"] = "returned"
    /\ wsocket = "ws2"
    /\ Len(ws_ops) > 0
    /\ Last(ws_ops).kind = "bus"
    /\ Last(ws_ops).conn = "ws2"
    /\ ws_error = "ConnectionClosed"
    /\ ws_sent = <<>>

====
